---------------------------- MODULE Spec2Model ----------------------------
(***************************************************************************)
(* A model of the Aoi VM (src/src/runtime): the value type AoType, the     *)
(* sparse Memory, operand evaluation (AoArg), the opcodes' execute bodies, *)
(* AoVM::step, and the byte codec of src/src/serialization.rs.             *)
(*                                                                         *)
(* 32-bit machine words (u32, i32, the bits of an f32) are held as their   *)
(* two's-complement bit pattern, an integer in I32_MIN..I32_MAX: a u32 x   *)
(* with x >= 2^31 is held as x - 2^32.  `as u32` and `as i32` are then the *)
(* identity on the pattern, exactly as in the machine, and the unsigned    *)
(* operations are spelled out (U32Lt, U32Add, ...).                        *)
(***************************************************************************)
EXTENDS Integers, Sequences, FiniteSets, TLC

VARIABLES
    pc, dp, mp, cs, dsb, ca, cb, ds, mem,   \* the fields of AoVM
    program,          \* the program handed to step/run
    overflow_checks,  \* the build: TRUE = overflow checks on (debug), FALSE = wrapping (release)
    status,           \* what the last call of step returned ("Panic": it aborted)
    called,           \* the last public operation called, with what it returned
    steps,            \* number of operations performed so far
    int_log,          \* the calls made to vm.interrupt, in order
    ds_access,        \* the accesses made through the `ds` operand by the last step
    frame,            \* |ds|, dsb and |cs| of the state the VM was started in
    written,          \* per address given to Memory::set: the last value and the number of sets
    probe,            \* the address of the last Memory::set and every readback before it
    asm, bin, des,    \* codec: the program, its serialization, the deserialized program
    stream            \* codec: the bytes handed to deserialize when they are not `bin`

vars == <<pc, dp, mp, cs, dsb, ca, cb, ds, mem, program, overflow_checks, status, called,
          steps, int_log, ds_access, frame, written, probe, asm, bin, des, stream>>

vm_vars == <<pc, dp, mp, cs, dsb, ca, cb, ds, mem>>
codec_vars == <<asm, bin, des, stream>>
mem_ghost == <<written, probe>>

(***************************************************************************)
(* Machine words                                                           *)
(***************************************************************************)
I32_MAX == 2147483647
I32_MIN == -I32_MAX - 1

\* i32 addition: the wrapped result and whether it overflowed
I32AddOv(a, b) == (a >= 0 /\ b > I32_MAX - a) \/ (a < 0 /\ b < I32_MIN - a)
WrapAdd(a, b) ==
    IF a >= 0 /\ b > I32_MAX - a THEN (a - I32_MAX - 1) + (b - I32_MAX - 1)
    ELSE IF a < 0 /\ b < I32_MIN - a THEN (a + I32_MAX + 1) + (b + I32_MAX + 1)
    ELSE a + b
\* two's-complement negation (wrapping: -I32_MIN = I32_MIN)
WrapNeg(a) == IF a = I32_MIN THEN I32_MIN ELSE -a
I32SubOv(a, b) == (b = I32_MIN /\ a >= 0) \/ (b # I32_MIN /\ I32AddOv(a, -b))
WrapSub(a, b) == IF b = I32_MIN THEN WrapAdd(WrapAdd(a, I32_MAX), 1) ELSE WrapAdd(a, -b)

\* unsigned order on bit patterns
U32Lt(a, b) == IF (a >= 0) = (b >= 0) THEN a < b ELSE a >= 0
U32Le(a, b) == a = b \/ U32Lt(a, b)
\* u32 addition overflows iff the wrapped sum is below an operand
U32AddOv(a, b) == U32Lt(WrapAdd(a, b), a)
\* u32 subtraction underflows iff a < b
U32SubOv(a, b) == U32Lt(a, b)

\* to_le_bytes / from_le_bytes of a 32-bit word
le_bytes(w) ==
    LET low == IF w >= 0 THEN w ELSE w - I32_MIN
    IN  << low % 256, (low \div 256) % 256, (low \div 65536) % 256,
           (low \div 16777216) + (IF w < 0 THEN 128 ELSE 0) >>
from_le_bytes(b) ==
    LET low == b[1] + 256 * b[2] + 65536 * b[3] + 16777216 * (b[4] % 128)
    IN  IF b[4] >= 128 THEN I32_MIN + low ELSE low

(***************************************************************************)
(* AoType: a tagged value.  n is the payload of Bool (0/1), Int, Float     *)
(* (the bits of the f32) and Ptr; s is the payload of String (its bytes).  *)
(***************************************************************************)
AoBool(b) == [tag |-> "Bool", n |-> IF b THEN 1 ELSE 0, s |-> <<>>]
AoInt(i) == [tag |-> "Int", n |-> i, s |-> <<>>]
AoFloat(bits) == [tag |-> "Float", n |-> bits, s |-> <<>>]
AoPtr(p) == [tag |-> "Ptr", n |-> p, s |-> <<>>]
AoString(bytes) == [tag |-> "String", n |-> 0, s |-> bytes]
AoType_default == AoInt(0)

(***************************************************************************)
(* AoStatus.  text and vals are the pieces of the message, in order of     *)
(* appearance.  "Panic" is no AoStatus: the call aborted.                  *)
(***************************************************************************)
St(kind) == [kind |-> kind, text |-> <<>>, vals |-> <<>>]
StMsg(kind, text, vals) == [kind |-> kind, text |-> text, vals |-> vals]
AoStatusKinds ==
    {"Ok", "Exit", "Return", "BadDataStack", "CallStackOverflow", "CallStackUnderflow",
     "DataStackOverflow", "DataStackUnderflow", "SetValueInvalidType",
     "SetValueInvalidTarget", "InvalidOperation", "InternalError"}
Panic == St("Panic")
NotCalled == St("NotCalled")

(***************************************************************************)
(* Sparse memory: Memory > Section > Page > Chip, each level a Vec of      *)
(* Option<Box<_>>.  None is [some |-> FALSE, kids |-> <<>>]; a Chip's kids *)
(* are its cells.  A Vec index i is position i + 1 of the sequence.        *)
(***************************************************************************)
None == [some |-> FALSE, kids |-> <<>>]
Some(kids) == [some |-> TRUE, kids |-> kids]
MemPanic == [tag |-> "Panic", n |-> 0, s |-> <<>>]

\* `while index >= v.len() { v.push(fill) }`
PushUntil(v, index, fill) ==
    IF index >= Len(v) THEN v \o [k \in 1..(index + 1 - Len(v)) |-> fill] ELSE v

Chip_get(data, index) ==
    IF index >= Len(data) THEN AoType_default ELSE data[index + 1]

\* a Chip::set that writes only cells it has to create
Chip_set_once(data, index, value) ==
    IF index < Len(data) THEN data ELSE [PushUntil(data, index, AoType_default) EXCEPT ![index + 1] = value]

Chip_set(data, index, value) ==
    [PushUntil(data, index, AoType_default) EXCEPT ![index + 1] = value]

Page_get(chips, index) ==
    LET chip_index == index \div 256
    IN  IF chip_index >= Len(chips) THEN AoType_default
        ELSE IF ~chips[chip_index + 1].some THEN MemPanic   \* unwrap() of None
        ELSE Chip_get(chips[chip_index + 1].kids, index % 256)

\* the slot chip_index of the grown Vec: a new Chip if it is None (the kids of
\* None are empty, as the data of Chip::new), then Chip::set
Page_put(grown, chip_index, cell, value) ==
    [grown EXCEPT ![chip_index + 1] = Some(Chip_set(@.kids, cell, value))]
Page_set(chips, index, value) ==
    Page_put(PushUntil(chips, index \div 256, None), index \div 256, index % 256, value)

\* (index >> 16) & 0xFF is the third byte of the u32, index & 0xFFFF its two low bytes
Low16(index) == LET b == le_bytes(index) IN b[1] + 256 * b[2]

Section_get(pages, index) ==
    LET page_index == le_bytes(index)[3]
    IN  IF page_index >= Len(pages) THEN AoType_default
        ELSE IF ~pages[page_index + 1].some THEN MemPanic   \* unwrap() of None
        ELSE Page_get(pages[page_index + 1].kids, Low16(index))

Section_put(grown, page_index, rest, value) ==
    [grown EXCEPT ![page_index + 1] = Some(Page_set(@.kids, rest, value))]
Section_set(pages, index, value) ==
    Section_put(PushUntil(pages, le_bytes(index)[3], None), le_bytes(index)[3],
                Low16(index), value)

Memory_new == <<>>

\* index is a u32 bit pattern; (index >> 24) & 0xFF is its top byte, and
\* index & 0xFFFFFF its three low bytes
Low24(index) == LET b == le_bytes(index) IN b[1] + 256 * b[2] + 65536 * b[3]

Memory_get(sections, index) ==
    LET section_index == le_bytes(index)[4]
    IN  IF section_index >= Len(sections) THEN AoType_default
        ELSE IF ~sections[section_index + 1].some THEN MemPanic   \* unwrap() of None
        ELSE Section_get(sections[section_index + 1].kids, index)

Memory_put(grown, section_index, rest, value) ==
    [grown EXCEPT ![section_index + 1] = Some(Section_set(@.kids, rest, value))]
Memory_set(sections, index, value) ==
    Memory_put(PushUntil(sections, le_bytes(index)[4], None), le_bytes(index)[4],
               Low24(index), value)

(***************************************************************************)
(* Vec<T>, held as the sequence of its runs of equal elements: a run is an *)
(* element and how many times it repeats; no run is empty and neighbouring *)
(* runs hold different elements, so equal vectors are equal run sequences. *)
(* Indices count from 0 as in the source.                                  *)
(***************************************************************************)
Run(v, n) == [v |-> v, n |-> n]

\* vec![v; n]
Vec_of(v, n) == IF n = 0 THEN <<>> ELSE <<Run(v, n)>>

\* the number of elements in the first k runs
RECURSIVE RunsLen(_, _)
RunsLen(vec, k) == IF k = 0 THEN 0 ELSE vec[k].n + RunsLen(vec, k - 1)

Vec_len(vec) == RunsLen(vec, Len(vec))

\* the run that holds index i < len
RunAt(vec, i) == CHOOSE k \in 1..Len(vec) : RunsLen(vec, k - 1) <= i /\ i < RunsLen(vec, k)

\* vec[i]
Vec_index(vec, i) == vec[RunAt(vec, i)].v

Vec_last(vec) == vec[Len(vec)].v

Vec_concat(a, b) ==
    IF a = <<>> THEN b
    ELSE IF b = <<>> THEN a
    ELSE IF a[Len(a)].v = b[1].v
    THEN SubSeq(a, 1, Len(a) - 1) \o <<Run(b[1].v, a[Len(a)].n + b[1].n)>> \o Tail(b)
    ELSE a \o b

Vec_push(vec, v) == Vec_concat(vec, <<Run(v, 1)>>)

TakeAt(vec, k, j) == SubSeq(vec, 1, j - 1) \o <<Run(vec[j].v, k - RunsLen(vec, j - 1))>>

\* Vec::truncate(k)
Vec_truncate(vec, k) ==
    IF k >= Vec_len(vec) THEN vec
    ELSE IF k = 0 THEN <<>>
    ELSE TakeAt(vec, k, RunAt(vec, k - 1))

DropAt(vec, k, j) == <<Run(vec[j].v, RunsLen(vec, j) - k)>> \o SubSeq(vec, j + 1, Len(vec))

\* vec[k..] for k <= len
Vec_from(vec, k) == IF k >= Vec_len(vec) THEN <<>> ELSE DropAt(vec, k, RunAt(vec, k))

\* vec[i] = v
Vec_set(vec, i, v) == Vec_concat(Vec_push(Vec_truncate(vec, i), v), Vec_from(vec, i + 1))

\* the vector Vec::pop leaves
Vec_pop(vec) == Vec_truncate(vec, Vec_len(vec) - 1)

(***************************************************************************)
(* The VM as a record, operands and instructions                           *)
(***************************************************************************)
VM == [pc |-> pc, dp |-> dp, mp |-> mp, cs |-> cs, dsb |-> dsb, ca |-> ca, cb |-> cb,
       ds |-> ds, mem |-> mem]

\* AoVM::new
AoVM_new == [pc |-> 0, dp |-> 0, mp |-> 0, cs |-> <<>>, dsb |-> 0, ca |-> AoType_default,
             cb |-> AoType_default, ds |-> <<>>, mem |-> Memory_new]

\* AoArg: a register name, or "IMM" with the immediate value
Reg(name) == [reg |-> name, imm |-> AoType_default]
Imm(value) == [reg |-> "IMM", imm |-> value]
NoArg == Reg("NONE")

\* an instruction: its mnemonic, its scalar operand (u8, i32, u32, or bool as 0/1)
\* and its AoArg operands
Ins(op, u, a, b) == [op |-> op, u |-> u, a |-> a, b |-> b]
Op0(op) == Ins(op, 0, NoArg, NoArg)
OpU(op, u) == Ins(op, u, NoArg, NoArg)
OpA(op, a) == Ins(op, 0, a, NoArg)
OpAA(op, a, b) == Ins(op, 0, a, b)

\* the limits compared against in Call and AoVM::push
CS_LIMIT == 100000
DS_LIMIT == 1000000

\* what executing one instruction yields: the VM after it, the status returned
\* ("Panic": the thread panicked at that point), the interrupt calls made and
\* the accesses made through the `ds` operand
Res(vm, st) == [vm |-> vm, st |-> st, calls |-> <<>>, acc |-> <<>>]
ResAcc(vm, st, acc) == [vm |-> vm, st |-> st, calls |-> <<>>, acc |-> acc]
Ok == St("Ok")

\* v[i] for a Vec indexed by a u32 `as usize`: in bounds iff 0 <= i < len
InBounds(i, v) == i >= 0 /\ i < Vec_len(v)
DsAccess(vm) == <<[dp |-> vm.dp, len |-> Vec_len(vm.ds)]>>

\* what get_value yields for a memory read r: ok = FALSE when it aborted
Fetched(r) ==
    IF r = MemPanic THEN [ok |-> FALSE, v |-> AoType_default, acc |-> <<>>]
    ELSE [ok |-> TRUE, v |-> r, acc |-> <<>>]

\* AoArg::get_value: [ok, v, acc], ok = FALSE when the read aborts
get_value(arg, vm) ==
    CASE arg.reg = "PC" -> [ok |-> TRUE, v |-> AoPtr(vm.pc), acc |-> <<>>]
      [] arg.reg = "DP" -> [ok |-> TRUE, v |-> AoPtr(vm.dp), acc |-> <<>>]
      [] arg.reg = "MP" -> [ok |-> TRUE, v |-> AoPtr(vm.mp), acc |-> <<>>]
      [] arg.reg = "DSB" -> [ok |-> TRUE, v |-> AoPtr(vm.dsb), acc |-> <<>>]
      [] arg.reg = "DST" -> [ok |-> TRUE, v |-> AoPtr(Vec_len(vm.ds)), acc |-> <<>>]
      [] arg.reg = "CA" -> [ok |-> TRUE, v |-> vm.ca, acc |-> <<>>]
      [] arg.reg = "CB" -> [ok |-> TRUE, v |-> vm.cb, acc |-> <<>>]
      [] arg.reg = "DS" ->
            IF InBounds(vm.dp, vm.ds)
            THEN [ok |-> TRUE, v |-> Vec_index(vm.ds, vm.dp), acc |-> DsAccess(vm)]
            ELSE [ok |-> FALSE, v |-> AoType_default, acc |-> DsAccess(vm)]
      [] arg.reg = "MEM" -> Fetched(Memory_get(vm.mem, vm.mp))
      [] arg.reg = "IMM" -> [ok |-> TRUE, v |-> arg.imm, acc |-> <<>>]

set_value(arg, vm, value) ==
    CASE arg.reg = "PC" ->
            IF value.tag = "Ptr" THEN Res([vm EXCEPT !.pc = value.n], Ok)
            ELSE Res(vm, StMsg("SetValueInvalidType",
                               <<"cannot set PC to non-pointer value">>, <<>>))
      [] arg.reg = "DP" ->
            IF value.tag = "Ptr" THEN Res([vm EXCEPT !.dp = value.n], Ok)
            ELSE Res(vm, StMsg("SetValueInvalidType",
                               <<"cannot set DP to non-pointer value">>, <<>>))
      [] arg.reg = "MP" ->
            IF value.tag = "Ptr" THEN Res([vm EXCEPT !.mp = value.n], Ok)
            ELSE Res(vm, StMsg("SetValueInvalidType",
                               <<"cannot set MP to non-pointer value">>, <<>>))
      [] arg.reg = "DSB" ->
            IF value.tag = "Ptr" THEN Res([vm EXCEPT !.dsb = value.n], Ok)
            ELSE Res(vm, StMsg("SetValueInvalidType", <<"cannot set DSB to ">>, <<value>>))
      [] arg.reg = "DST" -> Res(vm, StMsg("SetValueInvalidTarget", <<"cannot set DST">>, <<>>))
      [] arg.reg = "CA" -> Res([vm EXCEPT !.ca = value], Ok)
      [] arg.reg = "CB" -> Res([vm EXCEPT !.cb = value], Ok)
      [] arg.reg = "DS" ->
            IF InBounds(vm.dp, vm.ds)
            THEN ResAcc([vm EXCEPT !.ds = Vec_set(@, vm.dp, value)], Ok, DsAccess(vm))
            ELSE ResAcc(vm, Panic, DsAccess(vm))
      [] arg.reg = "MEM" -> Res([vm EXCEPT !.mem = Memory_set(@, vm.mp, value)], Ok)
      [] arg.reg = "IMM" ->
            Res(vm, StMsg("SetValueInvalidTarget", <<"cannot set immediate value">>, <<>>))

(***************************************************************************)
(* AoVM::push, pop, peek                                                   *)
(***************************************************************************)
\* a push that refuses at the limit already
AoVM_push_ge(vm, value) ==
    IF Vec_len(vm.ds) >= DS_LIMIT THEN [vm |-> vm, ret |-> FALSE]
    ELSE [vm |-> [vm EXCEPT !.ds = Vec_push(@, value)], ret |-> TRUE]

AoVM_push(vm, value) ==
    IF Vec_len(vm.ds) > DS_LIMIT THEN [vm |-> vm, ret |-> FALSE]
    ELSE [vm |-> [vm EXCEPT !.ds = Vec_push(@, value)], ret |-> TRUE]

\* Option<AoType> as a sequence of at most one value
AoVM_pop_keeps(vm) ==
    IF Vec_len(vm.ds) = 0 THEN [vm |-> vm, ret |-> <<>>]
    ELSE [vm |-> vm, ret |-> <<Vec_last(vm.ds)>>]
AoVM_pop(vm) ==
    IF Vec_len(vm.ds) = 0 THEN [vm |-> vm, ret |-> <<>>]
    ELSE [vm |-> [vm EXCEPT !.ds = Vec_pop(@)], ret |-> <<Vec_last(vm.ds)>>]

AoVM_peek(vm) == IF Vec_len(vm.ds) = 0 THEN <<>> ELSE <<Vec_last(vm.ds)>>

(***************************************************************************)
(* The opcodes' execute bodies (the macro appends AoStatus::Ok to each).   *)
(* oc: overflow checks are on.  h: what the interrupt handler returns,     *)
(* an Option<AoType> as a sequence of at most one value.                   *)
(***************************************************************************)
\* Vec::resize_with(new_len, AoType::default)
resize_with(v, new_len) ==
    IF new_len <= Vec_len(v) THEN Vec_truncate(v, new_len)
    ELSE Vec_concat(v, Vec_of(AoType_default, new_len - Vec_len(v)))

Nop_execute(vm) == Res(vm, Ok)

\* a Call that refuses only above the limit
Call_execute_gt(vm, addr) ==
    IF Vec_len(vm.cs) > CS_LIMIT THEN Res(vm, St("CallStackOverflow"))
    ELSE Res([vm EXCEPT !.cs = Vec_push(@, vm.pc), !.pc = addr], Ok)

Call_execute(vm, addr) ==
    IF Vec_len(vm.cs) >= CS_LIMIT THEN Res(vm, St("CallStackOverflow"))
    ELSE Res([vm EXCEPT !.cs = Vec_push(@, vm.pc), !.pc = addr], Ok)

\* an unwinding that truncates before it looks at the slot
Unwind_truncates(vm, slot) ==
    IF ~InBounds(slot, vm.ds) THEN Res(vm, Panic)
    ELSE IF Vec_index(vm.ds, slot).tag = "Ptr"
    THEN Res([vm EXCEPT !.dsb = Vec_index(vm.ds, slot).n, !.ds = resize_with(@, slot)], Ok)
    ELSE Res([vm EXCEPT !.ds = resize_with(@, slot)], St("BadDataStack"))

\* an unwinding that leaves the saved frame base on the stack
Unwind_keeps_base(vm, slot) ==
    IF ~InBounds(slot, vm.ds) THEN Res(vm, Panic)
    ELSE IF Vec_index(vm.ds, slot).tag = "Ptr"
    THEN Res([vm EXCEPT !.dsb = Vec_index(vm.ds, slot).n, !.ds = resize_with(@, slot + 1)], Ok)
    ELSE Res(vm, St("BadDataStack"))

\* the frame unwinding shared by Ret and Int, slot being `vm.dsb - 1`: Panic
\* when vm.ds[slot] is out of bounds, BadDataStack when it holds no Ptr
Unwind(vm, slot) ==
    IF ~InBounds(slot, vm.ds) THEN Res(vm, Panic)
    ELSE IF Vec_index(vm.ds, slot).tag = "Ptr"
    THEN Res([vm EXCEPT !.dsb = Vec_index(vm.ds, slot).n, !.ds = resize_with(@, slot)], Ok)
    ELSE Res(vm, St("BadDataStack"))

\* r: the unwinding; on Ok, pc = cs.pop()
Returned(r) ==
    IF r.st.kind = "Ok"
    THEN [r EXCEPT !.vm.pc = Vec_last(r.vm.cs), !.vm.cs = Vec_pop(@)]
    ELSE r

\* a Ret that leaves the return address on the call stack
Ret_execute_keeps_cs(vm, oc) ==
    IF Vec_len(vm.cs) = 0 THEN Res(vm, St("CallStackUnderflow"))
    ELSE IF U32SubOv(vm.dsb, 1) /\ oc THEN Res(vm, Panic)
    ELSE [Returned(Unwind(vm, WrapSub(vm.dsb, 1))) EXCEPT !.vm.cs = vm.cs]
Ret_execute(vm, oc) ==
    IF Vec_len(vm.cs) = 0 THEN Res(vm, St("CallStackUnderflow"))
    ELSE IF U32SubOv(vm.dsb, 1) /\ oc THEN Res(vm, Panic)     \* vm.dsb - 1 overflows
    ELSE Returned(Unwind(vm, WrapSub(vm.dsb, 1)))

\* (vm.pc as i32 + self.addr - 1) as u32
JumpRel(vm, addr, oc) ==
    IF oc /\ (I32AddOv(vm.pc, addr) \/ I32SubOv(WrapAdd(vm.pc, addr), 1)) THEN Res(vm, Panic)
    ELSE Res([vm EXCEPT !.pc = WrapSub(WrapAdd(vm.pc, addr), 1)], Ok)

\* the `match vm.ca` of Jt, Jta, Jf, Jfa; f != 0.0 is false exactly for +0.0 and -0.0
Truthy(value) ==
    CASE value.tag = "Bool" -> value.n = 1
      [] value.tag = "Int" -> value.n # 0
      [] value.tag = "Float" -> value.n # 0 /\ value.n # I32_MIN
      [] OTHER -> FALSE

Jmp_execute(vm, addr, oc) == JumpRel(vm, addr, oc)
Jmpa_execute(vm, addr) == Res([vm EXCEPT !.pc = addr], Ok)
Jt_execute(vm, addr, oc) == IF Truthy(vm.ca) THEN JumpRel(vm, addr, oc) ELSE Res(vm, Ok)
Jta_execute(vm, addr) == IF Truthy(vm.ca) THEN Res([vm EXCEPT !.pc = addr], Ok) ELSE Res(vm, Ok)
Jf_execute(vm, addr, oc) == IF ~Truthy(vm.ca) THEN JumpRel(vm, addr, oc) ELSE Res(vm, Ok)
Jfa_execute(vm, addr) == IF ~Truthy(vm.ca) THEN Res([vm EXCEPT !.pc = addr], Ok) ELSE Res(vm, Ok)

\* g: what self.src.get_value(vm) yields
\* a Mov that drops the status of set_value
Mov_execute_swallows(vm, dst, g) ==
    IF ~g.ok THEN ResAcc(vm, Panic, g.acc)
    ELSE [set_value(dst, vm, g.v) EXCEPT !.acc = g.acc \o @, !.st = Ok]
Mov_execute(vm, dst, g) ==
    IF ~g.ok THEN ResAcc(vm, Panic, g.acc)
    ELSE [set_value(dst, vm, g.v) EXCEPT !.acc = g.acc \o @]

\* vm: the VM after `vm.ca = value` of the handler's Some(value); call: the
\* call made to the handler
Interrupted(vm, call, oc) ==
    IF U32SubOv(vm.dsb, 1) /\ oc                              \* vm.dsb - 1 overflows
    THEN [vm |-> vm, st |-> Panic, calls |-> call, acc |-> <<>>]
    ELSE [Unwind(vm, WrapSub(vm.dsb, 1)) EXCEPT !.calls = call]

Int_execute_keeps_ca(vm, id, oc, h) ==
    IF id = 0 THEN Res(vm, St("Exit"))
    ELSE IF ~(vm.dsb >= 0 /\ vm.dsb <= Vec_len(vm.ds)) THEN Res(vm, Panic)
    ELSE Interrupted(vm, <<[id |-> id, args |-> Vec_from(vm.ds, vm.dsb)]>>, oc)
Int_execute_unchecked(vm, id, oc, h) ==
    IF ~(vm.dsb >= 0 /\ vm.dsb <= Vec_len(vm.ds)) THEN Res(vm, Panic)
    ELSE Interrupted(IF Len(h) = 1 THEN [vm EXCEPT !.ca = h[1]] ELSE vm,
                     <<[id |-> id, args |-> Vec_from(vm.ds, vm.dsb)]>>, oc)
Int_execute_from_slot(vm, id, oc, h) ==
    IF id = 0 THEN Res(vm, St("Exit"))
    ELSE IF ~(vm.dsb >= 1 /\ vm.dsb <= Vec_len(vm.ds)) THEN Res(vm, Panic)
    ELSE Interrupted(IF Len(h) = 1 THEN [vm EXCEPT !.ca = h[1]] ELSE vm,
                     <<[id |-> id, args |-> Vec_from(vm.ds, vm.dsb - 1)]>>, oc)
Int_execute(vm, id, oc, h) ==
    IF id = 0 THEN Res(vm, St("Exit"))
    ELSE IF ~(vm.dsb >= 0 /\ vm.dsb <= Vec_len(vm.ds)) THEN Res(vm, Panic)  \* vm.ds[dsb..]
    ELSE Interrupted(IF Len(h) = 1 THEN [vm EXCEPT !.ca = h[1]] ELSE vm,
                     <<[id |-> id, args |-> Vec_from(vm.ds, vm.dsb)]>>, oc)

\* g: what self.src.get_value(vm) yields; p: what vm.push of it yields
Pushed(vm, g, p) ==
    IF ~p.ret THEN ResAcc(vm, St("DataStackOverflow"), g.acc) ELSE ResAcc(p.vm, Ok, g.acc)
Push_execute(vm, g) ==
    IF ~g.ok THEN ResAcc(vm, Panic, g.acc) ELSE Pushed(vm, g, AoVM_push(vm, g.v))

\* p: what vm.pop() yields
Popped(vm, to_ca, p) ==
    IF Len(p.ret) = 1
    THEN Res(IF to_ca = 1 THEN [p.vm EXCEPT !.ca = p.ret[1]] ELSE p.vm, Ok)
    ELSE Res(vm, St("DataStackUnderflow"))
Pop_execute(vm, to_ca) == Popped(vm, to_ca, AoVM_pop(vm))

Arg_execute(vm, offset, oc) ==
    IF oc /\ U32AddOv(vm.dsb, offset) THEN Res(vm, Panic)
    ELSE Res([vm EXCEPT !.dp = WrapAdd(vm.dsb, offset)], Ok)

Cnf_execute(vm, argc, oc) ==
    IF oc /\ U32SubOv(Vec_len(vm.ds), argc) THEN Res(vm, Panic)
    ELSE Res([vm EXCEPT !.dsb = WrapSub(Vec_len(vm.ds), argc)], Ok)

(***************************************************************************)
(* 32-bit integer arithmetic on bit patterns                               *)
(***************************************************************************)
Max(a, b) == IF a >= b THEN a ELSE b
Min(a, b) == IF a <= b THEN a ELSE b
Pow2(k) == 2 ^ k                              \* for 0 <= k <= 30

RECURSIVE BitLen(_)
BitLen(k) == IF k <= 0 THEN 0 ELSE 1 + BitLen(k \div 2)

\* the 32 bits of a word, least significant first, and back
ToBits(w) ==
    LET low == IF w >= 0 THEN w ELSE w - I32_MIN
    IN  [i \in 1..32 |-> IF i = 32 THEN (IF w < 0 THEN 1 ELSE 0)
                         ELSE (low \div Pow2(i - 1)) % 2]
RECURSIVE BitsLow(_, _)
BitsLow(bits, i) == IF i = 0 THEN 0 ELSE 2 * BitsLow(bits, i - 1) + bits[32 - i]
FromBits(bits) == (IF bits[32] = 1 THEN I32_MIN ELSE 0) + BitsLow(bits, 31)

BitAnd(a, b) == FromBits([i \in 1..32 |-> ToBits(a)[i] * ToBits(b)[i]])
BitOr(a, b) == FromBits([i \in 1..32 |-> Max(ToBits(a)[i], ToBits(b)[i])])
BitXor(a, b) == FromBits([i \in 1..32 |-> (ToBits(a)[i] + ToBits(b)[i]) % 2])
BitNot(a) == (-1) - a

\* wrapping shifts of the pattern by k in 0..31 (>> is arithmetic on i32)
WrapShl(a, k) == FromBits([i \in 1..32 |-> IF i <= k THEN 0 ELSE ToBits(a)[i - k]])
ArithShr(a, k) == IF k = 31 THEN (IF a < 0 THEN -1 ELSE 0) ELSE a \div Pow2(k)

\* the 16-bit halves of a word, and the product of two halves as <<high, low>>
Lo16(w) == w % 65536
Hi16(w) == (w \div 65536) % 65536
Mul16Sum(t, v) == <<(t \div 65536) + (v \div 256), t % 65536>>
Mul16Parts(u, v) == Mul16Sum(u + 256 * (v % 256), v)
Mul16(x, y) == Mul16Parts(x * (y % 256), x * (y \div 256))
FromHalves(hi, lo) == (IF hi >= 32768 THEN hi - 65536 ELSE hi) * 65536 + lo

\* the 64-bit product of two words read as u32, as four 16-bit limbs (low first)
LimbSum3(l0, s1, s2, s3) == <<l0, s1 % 65536, s2 % 65536, s3 % 65536>>
LimbSum2(l0, s1, s2, p11) == LimbSum3(l0, s1, s2, (s2 \div 65536) + p11[1])
LimbSum1(p00, p01, p10, p11, s1) ==
    LimbSum2(p00[2], s1, (s1 \div 65536) + p01[1] + p10[1] + p11[2], p11)
LimbSum(p00, p01, p10, p11) == LimbSum1(p00, p01, p10, p11, p00[1] + p01[2] + p10[2])
MulLimbs(a, b) ==
    LimbSum(Mul16(Lo16(a), Lo16(b)), Mul16(Lo16(a), Hi16(b)),
            Mul16(Hi16(a), Lo16(b)), Mul16(Hi16(a), Hi16(b)))
LowWord(l) == FromHalves(l[2], l[1])
WrapMul(a, b) == LowWord(MulLimbs(a, b))

\* i32 / and % (truncating), defined for b # 0 and (a, b) # (I32_MIN, -1)
Abs(a) == IF a < 0 THEN -a ELSE a
Signed(negative, m) == IF negative THEN -m ELSE m
\* 2^31 divided by d, for 2 <= d < 2^31: quotient and remainder
MinDiv(d) == IF (I32_MAX % d) + 1 = d THEN (I32_MAX \div d) + 1 ELSE I32_MAX \div d
MinRem(d) == IF (I32_MAX % d) + 1 = d THEN 0 ELSE (I32_MAX % d) + 1
TruncDiv(a, b) ==
    IF b = 1 THEN a
    ELSE IF b = -1 THEN WrapNeg(a)
    ELSE IF b = I32_MIN THEN (IF a = I32_MIN THEN 1 ELSE 0)
    ELSE IF a = I32_MIN THEN Signed(b > 0, MinDiv(Abs(b)))
    ELSE Signed((a < 0) # (b < 0), Abs(a) \div Abs(b))
TruncRem(a, b) ==
    IF b = I32_MIN THEN (IF a = I32_MIN THEN 0 ELSE a)
    ELSE IF a = I32_MIN THEN -MinRem(Abs(b))
    ELSE Signed(a < 0, Abs(a) % Abs(b))

I32MulOv(a, b) ==
    IF a = 0 \/ b = 0 THEN FALSE
    ELSE IF b = -1 THEN a = I32_MIN
    ELSE IF a = -1 THEN b = I32_MIN
    ELSE TruncDiv(WrapMul(a, b), b) # a

\* u32 product overflow: the high half of the 64-bit product is not zero
HighLimbs(l) == l[3] # 0 \/ l[4] # 0
U32MulOv(a, b) == HighLimbs(MulLimbs(a, b))

(***************************************************************************)
(* AoTypeBinOper: the per-type functions of the ten operator tables.  Each *)
(* yields [def, panic, n]: def = the table has Some function, panic = the  *)
(* function aborts on these operands, n = its result.                      *)
(***************************************************************************)
NoOper == [def |-> FALSE, panic |-> FALSE, n |-> 0]
OperVal(n) == [def |-> TRUE, panic |-> FALSE, n |-> n]
OperPanic == [def |-> TRUE, panic |-> TRUE, n |-> 0]

\* bool_oper: Some in BIN_OPER_ADD (||) and BIN_OPER_MUL (&&)
bool_oper_left(name, l, r) ==
    CASE name = "+" -> OperVal(l)
      [] name = "*" -> OperVal(IF l = 1 /\ r = 1 THEN 1 ELSE 0)
      [] OTHER -> NoOper
bool_oper(name, l, r) ==
    CASE name = "+" -> OperVal(IF l = 1 \/ r = 1 THEN 1 ELSE 0)
      [] name = "*" -> OperVal(IF l = 1 /\ r = 1 THEN 1 ELSE 0)
      [] OTHER -> NoOper

\* int_oper: Some in all ten tables.  +, -, * panic on overflow when overflow
\* checks are on and wrap otherwise; / and % panic on a zero divisor and on
\* MIN / -1 in every build; << and >> by an amount outside 0..31 panic with
\* overflow checks and use the amount's low five bits without
int_oper(name, l, r, oc) ==
    CASE name = "+" -> IF oc /\ I32AddOv(l, r) THEN OperPanic ELSE OperVal(WrapAdd(l, r))
      [] name = "-" -> IF oc /\ I32SubOv(l, r) THEN OperPanic ELSE OperVal(WrapSub(l, r))
      [] name = "*" -> IF oc /\ I32MulOv(l, r) THEN OperPanic ELSE OperVal(WrapMul(l, r))
      [] name = "/" -> IF r = 0 \/ (l = I32_MIN /\ r = -1) THEN OperPanic
                       ELSE OperVal(TruncDiv(l, r))
      [] name = "%" -> IF r = 0 \/ (l = I32_MIN /\ r = -1) THEN OperPanic
                       ELSE OperVal(TruncRem(l, r))
      [] name = "&" -> OperVal(BitAnd(l, r))
      [] name = "|" -> OperVal(BitOr(l, r))
      [] name = "^" -> OperVal(BitXor(l, r))
      [] name = "<<" -> IF oc /\ (r < 0 \/ r >= 32) THEN OperPanic
                        ELSE OperVal(WrapShl(l, r % 32))
      [] name = ">>" -> IF oc /\ (r < 0 \/ r >= 32) THEN OperPanic
                        ELSE OperVal(ArithShr(l, r % 32))
      [] OTHER -> NoOper

\* ptr_oper: Some in BIN_OPER_ADD, SUB and MUL, on u32
ptr_oper(name, l, r, oc) ==
    CASE name = "+" -> IF oc /\ U32AddOv(l, r) THEN OperPanic ELSE OperVal(WrapAdd(l, r))
      [] name = "-" -> IF oc /\ U32SubOv(l, r) THEN OperPanic ELSE OperVal(WrapSub(l, r))
      [] name = "*" -> IF oc /\ U32MulOv(l, r) THEN OperPanic ELSE OperVal(WrapMul(l, r))
      [] OTHER -> NoOper

\* string_oper: Some in BIN_OPER_ADD only, format!("{}{}", l, r)
string_oper(name, l, r) ==
    IF name = "+" THEN [def |-> TRUE, s |-> l \o r] ELSE [def |-> FALSE, s |-> <<>>]

(***************************************************************************)
(* f32 (IEEE 754 binary32, round to nearest even) on bit patterns.  A      *)
(* finite value is sig * 2^e with sig the 24-bit significand and e the     *)
(* exponent of its last bit.  Every NaN result is F32_NAN: the payload and *)
(* sign of a computed NaN are not tracked.                                 *)
(***************************************************************************)
F32_NAN == 2143289344          \* 0x7FC00000
F32_INF == 2139095040          \* 0x7F800000
F32_ONE == 1065353216          \* 0x3F800000, 1.0
F32Sign(w) == IF w < 0 THEN 1 ELSE 0
F32Mag(w) == IF w < 0 THEN w - I32_MIN ELSE w
F32WithSign(sign, mag) == IF sign = 1 THEN mag + I32_MIN ELSE mag
F32Neg(w) == F32WithSign(1 - F32Sign(w), F32Mag(w))
F32IsNaN(w) == F32Mag(w) > F32_INF
F32IsInf(w) == F32Mag(w) = F32_INF
F32IsZero(w) == F32Mag(w) = 0
F32Sig(w) ==
    LET mag == F32Mag(w)
    IN  IF mag \div 8388608 = 0 THEN mag ELSE 8388608 + (mag % 8388608)
F32E(w) == Max(F32Mag(w) \div 8388608, 1) - 150

\* q + 1 or q: q rounded to nearest, ties to even, rem out of 2 * half lost
RoundNearest(q, rem, half) == IF rem > half \/ (rem = half /\ q % 2 = 1) THEN q + 1 ELSE q
\* m * 2^(-shift) so rounded
RoundShift(m, shift) ==
    IF shift <= 0 THEN m * Pow2(-shift)
    ELSE IF shift > 31 THEN 0
    ELSE IF shift = 31 THEN RoundNearest(0, m, Pow2(30))
    ELSE RoundNearest(m \div Pow2(shift), m % Pow2(shift), Pow2(shift - 1))
\* the bits of sig * 2^et, sig <= 2^24 (an exponent above 127 is infinity)
F32Pack(sign, et, sig) ==
    IF et + 150 > 254 THEN F32WithSign(sign, F32_INF)
    ELSE F32WithSign(sign, Min((et + 149) * 8388608 + sig, F32_INF))
F32RoundAt(sign, m, e, et) == F32Pack(sign, et, RoundShift(m, et - e))

\* the f32 nearest to m * 2^e (ties to even), for 0 <= m < 2^31.  A set last
\* bit of m may stand for any nonzero amount below it, provided m is longer
\* than 25 bits.
F32Round(sign, m, e) ==
    IF m = 0 THEN F32WithSign(sign, 0)
    ELSE F32RoundAt(sign, m, e, Max(e + BitLen(m) - 24, -149))

\* q with its last bit set if something was lost below it
Jam(q, lost) == IF lost /\ q % 2 = 0 THEN q + 1 ELSE q
\* m >> k with the lost bits or-ed into the last bit, for 0 <= m < 2^31
ShiftRightJam(m, k) ==
    IF k = 0 THEN m
    ELSE IF k > 30 THEN (IF m # 0 THEN 1 ELSE 0)
    ELSE Jam(m \div Pow2(k), m % Pow2(k) # 0)

\* the sum of two significands aligned at exponent e, with their signs
AddAligned(sx, sy, big, small, e) ==
    IF sx = sy THEN F32Round(sx, big + small, e)
    ELSE IF big = small THEN 0
    ELSE F32Round(IF big > small THEN sx ELSE sy, Abs(big - small), e)
\* x + y for finite x, y with the exponent of x not below that of y
AddOrdered(x, y) ==
    AddAligned(F32Sign(x), F32Sign(y), F32Sig(x) * 8,
               ShiftRightJam(F32Sig(y) * 8, F32E(x) - F32E(y)), F32E(x) - 3)
F32Add(a, b) ==
    IF F32IsNaN(a) \/ F32IsNaN(b) THEN F32_NAN
    ELSE IF F32IsInf(a) THEN (IF F32IsInf(b) /\ a # b THEN F32_NAN ELSE a)
    ELSE IF F32IsInf(b) THEN b
    ELSE IF F32E(a) < F32E(b) THEN AddOrdered(b, a) ELSE AddOrdered(a, b)
F32Sub(a, b) == F32Add(a, F32Neg(b))

\* the bit length of a product held in limbs
LimbsLen(l) ==
    IF l[3] > 0 THEN 32 + BitLen(l[3]) ELSE IF l[2] > 0 THEN 16 + BitLen(l[2]) ELSE BitLen(l[1])
\* the limbs shifted right by k (3 <= k <= 20), the lost bits jammed
LimbsShift(l, k) ==
    IF k <= 16
    THEN Jam(l[3] * Pow2(32 - k) + l[2] * Pow2(16 - k) + (l[1] \div Pow2(k)),
             l[1] % Pow2(k) # 0)
    ELSE Jam(l[3] * Pow2(32 - k) + (l[2] \div Pow2(k - 16)),
             l[1] # 0 \/ l[2] % Pow2(k - 16) # 0)
\* a product of two significands as <<m, k>> with value m * 2^k, m < 2^28
SigOfLimbs(l, len) ==
    IF len <= 30 THEN <<l[1] + 65536 * l[2], 0>> ELSE <<LimbsShift(l, len - 28), len - 28>>
SigWithLen(l) == SigOfLimbs(l, LimbsLen(l))
SigProduct(x, y) == SigWithLen(MulLimbs(x, y))

MulRound(sign, p, e) == F32Round(sign, p[1], e + p[2])
F32Mul(a, b) ==
    IF F32IsNaN(a) \/ F32IsNaN(b) THEN F32_NAN
    ELSE IF F32IsInf(a) \/ F32IsInf(b)
    THEN (IF F32IsZero(a) \/ F32IsZero(b) THEN F32_NAN
          ELSE F32WithSign((F32Sign(a) + F32Sign(b)) % 2, F32_INF))
    ELSE IF F32IsZero(a) \/ F32IsZero(b) THEN F32WithSign((F32Sign(a) + F32Sign(b)) % 2, 0)
    ELSE MulRound((F32Sign(a) + F32Sign(b)) % 2, SigProduct(F32Sig(a), F32Sig(b)),
                  F32E(a) + F32E(b))

\* a nonzero significand shifted left to 24 bits
SigNorm(m) == m * Pow2(24 - BitLen(m))

\* seven more quotient bits of a long division by d: <<quotient, remainder>>
DivChunk(qr, d) == <<qr[1] * 128 + (qr[2] * 128) \div d, (qr[2] * 128) % d>>
\* floor(n * 2^28 / d) with the remainder jammed, for 24-bit n and d
LongDiv(n, d) == DivChunk(DivChunk(DivChunk(DivChunk(<<n \div d, n % d>>, d), d), d), d)
JamQuotient(qr) == Jam(qr[1], qr[2] # 0)
\* the exponent of the first bit of a finite nonzero f32
F32Top(w) == F32E(w) + BitLen(F32Sig(w))

F32Div(a, b) ==
    IF F32IsNaN(a) \/ F32IsNaN(b) THEN F32_NAN
    ELSE IF F32IsInf(a)
    THEN (IF F32IsInf(b) THEN F32_NAN ELSE F32WithSign((F32Sign(a) + F32Sign(b)) % 2, F32_INF))
    ELSE IF F32IsInf(b) THEN F32WithSign((F32Sign(a) + F32Sign(b)) % 2, 0)
    ELSE IF F32IsZero(b)
    THEN (IF F32IsZero(a) THEN F32_NAN ELSE F32WithSign((F32Sign(a) + F32Sign(b)) % 2, F32_INF))
    ELSE IF F32IsZero(a) THEN F32WithSign((F32Sign(a) + F32Sign(b)) % 2, 0)
    ELSE F32Round((F32Sign(a) + F32Sign(b)) % 2,
                  JamQuotient(LongDiv(SigNorm(F32Sig(a)), SigNorm(F32Sig(b)))),
                  F32Top(a) - F32Top(b) - 28)

\* (r * 2^k) mod d, seven bits at a time
RECURSIVE ShiftMod(_, _, _)
ShiftMod(r, k, d) ==
    IF k = 0 THEN r
    ELSE ShiftMod((r * Pow2(Min(k, 7))) % d, k - Min(k, 7), d)

\* the % of f32 (fmod): the exact remainder, with the sign of the dividend
F32Rem(a, b) ==
    IF F32IsNaN(a) \/ F32IsNaN(b) \/ F32IsInf(a) \/ F32IsZero(b) THEN F32_NAN
    ELSE IF F32IsInf(b) \/ F32Mag(a) < F32Mag(b) THEN a
    ELSE F32Round(F32Sign(a), ShiftMod(F32Sig(a) % F32Sig(b), F32E(a) - F32E(b), F32Sig(b)),
                  F32E(b))

\* `as f32` of an i32 and of a u32
I32ToF32(i) ==
    IF i = I32_MIN THEN F32WithSign(1, 1325400064)              \* -2^31
    ELSE F32Round(IF i < 0 THEN 1 ELSE 0, Abs(i), 0)
U32ToF32(p) ==
    IF p >= 0 THEN F32Round(0, p, 0)
    ELSE F32Round(0, Jam(((p - I32_MIN) \div 2) + 1073741824, p % 2 = 1), 1)

\* float_oper: Some in BIN_OPER_ADD, SUB, MUL, DIV and REM
float_oper(name, l, r) ==
    CASE name = "+" -> OperVal(F32Add(l, r))
      [] name = "-" -> OperVal(F32Sub(l, r))
      [] name = "*" -> OperVal(F32Mul(l, r))
      [] name = "/" -> OperVal(F32Div(l, r))
      [] name = "%" -> OperVal(F32Rem(l, r))
      [] OTHER -> NoOper

\* AoTypeBinOper::apply and ::throw.  Return(v) carries v in vals; the message
\* of InvalidOperation is format!("{} {} {}", left, name, right)
Return(value) == StMsg("Return", <<>>, <<value>>)
throw(name, left, right) == StMsg("InvalidOperation", <<name>>, <<left, right>>)
OperResult(r, tag, name, left, right) ==
    IF ~r.def THEN throw(name, left, right)
    ELSE IF r.panic THEN Panic
    ELSE Return([tag |-> tag, n |-> r.n, s |-> <<>>])

StringResult(r, name, left, right) ==
    IF r.def THEN Return(AoString(r.s)) ELSE throw(name, left, right)

apply(name, left, right, oc) ==
    CASE left.tag = "Bool" /\ right.tag = "Bool" ->
            OperResult(bool_oper(name, left.n, right.n), "Bool", name, left, right)
      [] left.tag = "Int" /\ right.tag = "Int" ->
            OperResult(int_oper(name, left.n, right.n, oc), "Int", name, left, right)
      [] left.tag = "Float" /\ right.tag = "Int" ->
            OperResult(float_oper(name, left.n, I32ToF32(right.n)), "Float", name, left, right)
      [] left.tag = "Int" /\ right.tag = "Float" ->
            OperResult(float_oper(name, I32ToF32(left.n), right.n), "Float", name, left, right)
      [] left.tag = "Float" /\ right.tag = "Float" ->
            OperResult(float_oper(name, left.n, right.n), "Float", name, left, right)
      [] left.tag = "Ptr" /\ right.tag = "Ptr" ->
            OperResult(ptr_oper(name, left.n, right.n, oc), "Ptr", name, left, right)
      [] left.tag = "Ptr" /\ right.tag = "Int" ->
            OperResult(ptr_oper(name, left.n, right.n, oc), "Ptr", name, left, right)
      [] left.tag = "Int" /\ right.tag = "Ptr" ->
            OperResult(int_oper(name, left.n, right.n, oc), "Int", name, left, right)
      [] left.tag = "String" /\ right.tag = "String" ->
            StringResult(string_oper(name, left.s, right.s), name, left, right)
      [] OTHER -> throw(name, left, right)

\* Add, Sub, Mul, Div, Rem, Shl, Shr, Band, Bor, Bxor: `vm.ca.clone() <name> src`.
\* g: what self.src.get_value(vm) yields; res: what the operator returns
BinOper_done_returns(vm, g, res) ==
    IF res.kind = "Return" THEN ResAcc([vm EXCEPT !.ca = res.vals[1]], res, g.acc)
    ELSE ResAcc(vm, res, g.acc)
BinOper_done(vm, g, res) ==
    IF res.kind = "Return" THEN ResAcc([vm EXCEPT !.ca = res.vals[1]], Ok, g.acc)
    ELSE ResAcc(vm, res, g.acc)
BinOper_execute(vm, name, g, oc) ==
    IF ~g.ok THEN ResAcc(vm, Panic, g.acc)
    ELSE BinOper_done(vm, g, apply(name, vm.ca, g.v, oc))

Inc_execute(vm, oc) ==
    CASE vm.ca.tag = "Int" ->
            IF oc /\ I32AddOv(vm.ca.n, 1) THEN Res(vm, Panic)
            ELSE Res([vm EXCEPT !.ca = AoInt(WrapAdd(vm.ca.n, 1))], Ok)
      [] vm.ca.tag = "Float" -> Res([vm EXCEPT !.ca = AoFloat(F32Add(vm.ca.n, F32_ONE))], Ok)
      [] OTHER -> Res(vm, StMsg("InvalidOperation", <<"inc ">>, <<vm.ca>>))

Dec_execute(vm, oc) ==
    CASE vm.ca.tag = "Int" ->
            IF oc /\ I32SubOv(vm.ca.n, 1) THEN Res(vm, Panic)
            ELSE Res([vm EXCEPT !.ca = AoInt(WrapSub(vm.ca.n, 1))], Ok)
      [] vm.ca.tag = "Float" -> Res([vm EXCEPT !.ca = AoFloat(F32Sub(vm.ca.n, F32_ONE))], Ok)
      [] OTHER -> Res(vm, StMsg("InvalidOperation", <<"dec ">>, <<vm.ca>>))

\* And, Or, Xor: on two Bool only; name is the operator of the message and
\* g what self.src.get_value(vm) yields
LogicValue(name, l, r) ==
    CASE name = "&&" -> l /\ r
      [] name = "||" -> l \/ r
      [] name = "^" -> l # r
Logic_execute_clears(vm, name, g) ==
    IF ~g.ok THEN ResAcc(vm, Panic, g.acc)
    ELSE IF vm.ca.tag = "Bool" /\ g.v.tag = "Bool"
    THEN ResAcc([vm EXCEPT !.ca = AoBool(LogicValue(name, vm.ca.n = 1, g.v.n = 1))], Ok, g.acc)
    ELSE ResAcc([vm EXCEPT !.ca = AoType_default],
                StMsg("InvalidOperation", <<name>>, <<vm.ca, g.v>>), g.acc)

Logic_execute(vm, name, g) ==
    IF ~g.ok THEN ResAcc(vm, Panic, g.acc)
    ELSE IF vm.ca.tag = "Bool" /\ g.v.tag = "Bool"
    THEN ResAcc([vm EXCEPT !.ca = AoBool(LogicValue(name, vm.ca.n = 1, g.v.n = 1))], Ok, g.acc)
    ELSE ResAcc(vm, StMsg("InvalidOperation", <<name>>, <<vm.ca, g.v>>), g.acc)

Not_execute(vm) ==
    IF vm.ca.tag = "Bool" THEN Res([vm EXCEPT !.ca = AoBool(vm.ca.n = 0)], Ok)
    ELSE Res(vm, StMsg("InvalidOperation", <<"!">>, <<vm.ca>>))

Bnot_execute(vm) ==
    IF vm.ca.tag = "Int" THEN Res([vm EXCEPT !.ca = AoInt(BitNot(vm.ca.n))], Ok)
    ELSE Res(vm, StMsg("InvalidOperation", <<"~">>, <<vm.ca>>))

\* == and < of f32: a NaN is unordered and unequal to everything, -0.0 = +0.0
F32Key(w) == IF w < 0 THEN -F32Mag(w) ELSE w
F32Eq(a, b) == ~F32IsNaN(a) /\ ~F32IsNaN(b) /\ F32Key(a) = F32Key(b)
F32Lt(a, b) == ~F32IsNaN(a) /\ ~F32IsNaN(b) /\ F32Key(a) < F32Key(b)

\* < of String: lexicographic on the bytes
StrLt(a, b) ==
    \/ Len(a) < Len(b) /\ SubSeq(b, 1, Len(a)) = a
    \/ \E i \in 1..Min(Len(a), Len(b)) : SubSeq(a, 1, i - 1) = SubSeq(b, 1, i - 1) /\ a[i] < b[i]

\* the arms of Equ and Neq: Bool, Int, Float and String pairs; every other pair
\* (Ptr pairs included) takes the `_` arm
SameTagEq(left, right) ==
    CASE left.tag = "Float" -> F32Eq(left.n, right.n)
      [] left.tag = "String" -> left.s = right.s
      [] OTHER -> left.n = right.n
HasEqArm(left, right) == left.tag = right.tag /\ left.tag # "Ptr"

\* g: what self.src.get_value(vm) yields
Equ_execute(vm, g) ==
    IF ~g.ok THEN ResAcc(vm, Panic, g.acc)
    ELSE ResAcc([vm EXCEPT !.ca = AoBool(HasEqArm(vm.ca, g.v) /\ SameTagEq(vm.ca, g.v))],
                Ok, g.acc)

\* a Neq with an arm for two Ptrs
Neq_execute_ptr(vm, g) ==
    IF ~g.ok THEN ResAcc(vm, Panic, g.acc)
    ELSE ResAcc([vm EXCEPT !.ca = AoBool(~(vm.ca.tag = g.v.tag /\ SameTagEq(vm.ca, g.v)))],
                Ok, g.acc)
Neq_execute(vm, g) ==
    IF ~g.ok THEN ResAcc(vm, Panic, g.acc)
    ELSE ResAcc([vm EXCEPT !.ca = AoBool(~HasEqArm(vm.ca, g.v) \/ ~SameTagEq(vm.ca, g.v))],
                Ok, g.acc)

\* left < right within one of the tags Bool, Int, Float, String
SameTagLt(left, right) ==
    CASE left.tag = "Float" -> F32Lt(left.n, right.n)
      [] left.tag = "String" -> StrLt(left.s, right.s)
      [] OTHER -> left.n < right.n

\* Gt, Lt, Ge, Le; name is the operator of the message and g what
\* self.src.get_value(vm) yields
CmpValue(name, left, right) ==
    CASE name = ">" -> SameTagLt(right, left)
      [] name = "<" -> SameTagLt(left, right)
      [] name = ">=" -> SameTagLt(right, left) \/ SameTagEq(left, right)
      [] name = "<=" -> SameTagLt(left, right) \/ SameTagEq(left, right)
Cmp_execute(vm, name, g) ==
    IF ~g.ok THEN ResAcc(vm, Panic, g.acc)
    ELSE IF HasEqArm(vm.ca, g.v)
    THEN ResAcc([vm EXCEPT !.ca = AoBool(CmpValue(name, vm.ca, g.v))], Ok, g.acc)
    ELSE ResAcc(vm, StMsg("InvalidOperation", <<name>>, <<vm.ca, g.v>>), g.acc)

\* `as i32` and `as u32` of an f32: toward zero, saturating, NaN to 0
F32Trunc(w) ==
    IF F32E(w) >= 0 THEN F32Sig(w) * Pow2(F32E(w))
    ELSE IF F32E(w) < -24 THEN 0
    ELSE F32Sig(w) \div Pow2(-F32E(w))
F32ToI32(w) ==
    IF F32IsNaN(w) THEN 0
    ELSE IF F32IsInf(w) \/ F32Top(w) > 31 THEN (IF w < 0 THEN I32_MIN ELSE I32_MAX)
    ELSE IF w < 0 THEN -F32Trunc(w) ELSE F32Trunc(w)
F32ToU32(w) ==
    IF F32IsNaN(w) \/ w < 0 THEN 0
    ELSE IF F32IsInf(w) \/ F32Top(w) > 32 THEN -1
    ELSE IF F32Top(w) = 32 THEN (F32Sig(w) - 8388608) * 256 + I32_MIN
    ELSE F32Trunc(w)

\* i32::to_string, u32::to_string: decimal digits, ASCII
RECURSIVE DecDigits(_)
DecDigits(k) == IF k < 10 THEN <<48 + k>> ELSE Append(DecDigits(k \div 10), 48 + (k % 10))
I32ToString(i) ==
    IF i = I32_MIN THEN <<45>> \o DecDigits(214748364) \o <<56>>
    ELSE IF i < 0 THEN <<45>> \o DecDigits(-i)
    ELSE DecDigits(i)
\* a word below zero stands for 2^32 + p = (p - I32_MIN) + 2147483648
U32ToString(p) ==
    IF p >= 0 THEN DecDigits(p)
    ELSE DecDigits(((p - I32_MIN) \div 10) + 214748364 + ((((p - I32_MIN) % 10) + 8) \div 10))
            \o <<48 + ((((p - I32_MIN) % 10) + 8) % 10)>>
\* f32::to_string of NaN, the infinities and the multiples of 0.5 below 2^23,
\* whose shortest decimal that reads back is their exact one
F32ToString(w) ==
    IF F32IsNaN(w) THEN <<78, 97, 78>>
    ELSE (IF w < 0 THEN <<45>> ELSE <<>>)
            \o (IF F32IsInf(w) THEN <<105, 110, 102>>
                ELSE IF F32E(w) < 0 /\ F32Sig(w) % Pow2(Min(-F32E(w), 24)) # 0
                THEN DecDigits(F32Trunc(w)) \o <<46, 53>>
                ELSE DecDigits(F32Trunc(w)))

\* str::parse::<i32>, ::<u32> and ::<f32> for strings without '.', 'e', 'E':
\* an optional sign and decimal digits ('-' not for u32); f32 also reads
\* inf, infinity and nan in any case
Front(seq) == SubSeq(seq, 1, Len(seq) - 1)
IsDigits(s) == s # <<>> /\ \A i \in 1..Len(s) : s[i] \in 48..57
RECURSIVE ParseDigits(_, _, _)
\* the digits of s after acc, as a number up to limit, or -1 above it
ParseDigits(s, acc, limit) ==
    IF s = <<>> THEN acc
    ELSE IF acc > (limit - (s[1] - 48)) \div 10 THEN -1
    ELSE ParseDigits(Tail(s), acc * 10 + (s[1] - 48), limit)
Unsigned(s) == IF s # <<>> /\ s[1] \in {43, 45} THEN Tail(s) ELSE s
ParseI32(s) ==
    IF ~IsDigits(Unsigned(s)) THEN 0
    ELSE IF s[1] = 45
    THEN (IF ParseDigits(Tail(s), 0, I32_MAX) >= 0 THEN -ParseDigits(Tail(s), 0, I32_MAX)
          ELSE IF ParseDigits(Front(Tail(s)), 0, I32_MAX) = 214748364 /\ s[Len(s)] = 56
          THEN I32_MIN ELSE 0)
    ELSE Max(ParseDigits(Unsigned(s), 0, I32_MAX), 0)
\* a u32 above i32::MAX: 2147483648..4294967295 as words
ParseHighU32(s) ==
    IF Len(s) = 10 /\ ParseDigits(Front(s), 0, I32_MAX) \in 214748364..429496729
          /\ (ParseDigits(Front(s), 0, I32_MAX) < 429496729 \/ s[10] <= 53)
          /\ (ParseDigits(Front(s), 0, I32_MAX) > 214748364 \/ s[10] >= 56)
    THEN (ParseDigits(Front(s), 0, I32_MAX) - 429496728) * 10 + (s[10] - 48) - 16
    ELSE 0
RECURSIVE StripZeros(_)
StripZeros(s) == IF Len(s) > 1 /\ s[1] = 48 THEN StripZeros(Tail(s)) ELSE s
ParseU32(s) ==
    IF s = <<>> \/ s[1] = 45 \/ ~IsDigits(Unsigned(s)) THEN 0
    ELSE IF ParseDigits(Unsigned(s), 0, I32_MAX) >= 0 THEN ParseDigits(Unsigned(s), 0, I32_MAX)
    ELSE ParseHighU32(StripZeros(Unsigned(s)))
LowerCase(s) == [i \in 1..Len(s) |-> IF s[i] \in 65..90 THEN s[i] + 32 ELSE s[i]]
\* digit strings of up to nine digits are read exactly and rounded once
ParseF32(s) ==
    IF LowerCase(Unsigned(s)) \in {<<105, 110, 102>>, <<105, 110, 102, 105, 110, 105, 116, 121>>}
    THEN F32WithSign(IF s[1] = 45 THEN 1 ELSE 0, F32_INF)
    ELSE IF LowerCase(Unsigned(s)) = <<110, 97, 110>> THEN F32_NAN
    ELSE IF ~IsDigits(Unsigned(s)) THEN 0
    ELSE F32Round(IF s[1] = 45 THEN 1 ELSE 0, ParseDigits(Unsigned(s), 0, I32_MAX), 0)

\* Csi, Csf, Csp, Css
Csi(value) ==
    CASE value.tag = "Bool" -> AoInt(value.n)
      [] value.tag = "Int" -> value
      [] value.tag = "Float" -> AoInt(F32ToI32(value.n))
      [] value.tag = "Ptr" -> AoInt(value.n)
      [] value.tag = "String" -> AoInt(ParseI32(value.s))
Csf(value) ==
    CASE value.tag = "Bool" -> AoFloat(IF value.n = 1 THEN F32_ONE ELSE 0)
      [] value.tag = "Int" -> AoFloat(I32ToF32(value.n))
      [] value.tag = "Float" -> value
      [] value.tag = "Ptr" -> AoFloat(U32ToF32(value.n))
      [] value.tag = "String" -> AoFloat(ParseF32(value.s))
Csp(value) ==
    CASE value.tag = "Bool" -> AoPtr(value.n)
      [] value.tag = "Int" -> AoPtr(value.n)
      [] value.tag = "Float" -> AoPtr(F32ToU32(value.n))
      [] value.tag = "Ptr" -> value
      [] value.tag = "String" -> AoPtr(ParseU32(value.s))
Css(value) ==
    CASE value.tag = "Bool" ->
            AoString(IF value.n = 1 THEN <<116, 114, 117, 101>> ELSE <<102, 97, 108, 115, 101>>)
      [] value.tag = "Int" -> AoString(I32ToString(value.n))
      [] value.tag = "Float" -> AoString(F32ToString(value.n))
      [] value.tag = "Ptr" -> AoString(U32ToString(value.n))
      [] value.tag = "String" -> value
\* a cast that refuses a String
Cast_execute_strict(vm, op) ==
    IF vm.ca.tag = "String" /\ op # "css"
    THEN Res(vm, StMsg("InvalidOperation", <<op>>, <<vm.ca>>))
    ELSE Res([vm EXCEPT !.ca = CASE op = "csi" -> Csi(@) [] op = "csf" -> Csf(@)
                                 [] op = "csp" -> Csp(@) [] op = "css" -> Css(@)], Ok)
Cast_execute(vm, op) ==
    Res([vm EXCEPT !.ca = CASE op = "csi" -> Csi(@) [] op = "csf" -> Csf(@)
                             [] op = "csp" -> Csp(@) [] op = "css" -> Css(@)], Ok)

\* Isb, Isi, Isf, Isp, Iss
Is_execute_numeric(vm, tag) ==
    Res([vm EXCEPT !.ca = AoBool(vm.ca.tag = tag \/ (tag = "Int" /\ vm.ca.tag = "Ptr"))], Ok)
Is_execute(vm, tag) == Res([vm EXCEPT !.ca = AoBool(vm.ca.tag = tag)], Ok)

(***************************************************************************)
(* AoOpcode::execute by mnemonic, and AoVM::step.  The cast opcodes (csi,  *)
(* csf, csp, css) are not part of the instruction set explored here.       *)
(***************************************************************************)
BinOperName(op) ==
    CASE op = "add" -> "+" [] op = "sub" -> "-" [] op = "mul" -> "*" [] op = "div" -> "/"
      [] op = "rem" -> "%" [] op = "shl" -> "<<" [] op = "shr" -> ">>" [] op = "band" -> "&"
      [] op = "bor" -> "|" [] op = "bxor" -> "^"
BinOperOps == {"add", "sub", "mul", "div", "rem", "shl", "shr", "band", "bor", "bxor"}
LogicName(op) == CASE op = "and" -> "&&" [] op = "or" -> "||" [] op = "xor" -> "^"
CmpName(op) == CASE op = "gt" -> ">" [] op = "lt" -> "<" [] op = "ge" -> ">=" [] op = "le" -> "<="
IsTag(op) ==
    CASE op = "isb" -> "Bool" [] op = "isi" -> "Int" [] op = "isf" -> "Float"
      [] op = "isp" -> "Ptr" [] op = "iss" -> "String"

execute(ins, vm, oc, h) ==
    CASE ins.op = "nop" -> Nop_execute(vm)
      [] ins.op = "call" -> Call_execute(vm, ins.u)
      [] ins.op = "ret" -> Ret_execute(vm, oc)
      [] ins.op = "jmp" -> Jmp_execute(vm, ins.u, oc)
      [] ins.op = "jmpa" -> Jmpa_execute(vm, ins.u)
      [] ins.op = "jt" -> Jt_execute(vm, ins.u, oc)
      [] ins.op = "jta" -> Jta_execute(vm, ins.u)
      [] ins.op = "jf" -> Jf_execute(vm, ins.u, oc)
      [] ins.op = "jfa" -> Jfa_execute(vm, ins.u)
      [] ins.op = "mov" -> Mov_execute(vm, ins.a, get_value(ins.b, vm))
      [] ins.op = "int" -> Int_execute(vm, ins.u, oc, h)
      [] ins.op = "push" -> Push_execute(vm, get_value(ins.a, vm))
      [] ins.op = "pop" -> Pop_execute(vm, ins.u)
      [] ins.op \in BinOperOps ->
            BinOper_execute(vm, BinOperName(ins.op), get_value(ins.a, vm), oc)
      [] ins.op = "inc" -> Inc_execute(vm, oc)
      [] ins.op = "dec" -> Dec_execute(vm, oc)
      [] ins.op \in {"and", "or", "xor"} ->
            Logic_execute(vm, LogicName(ins.op), get_value(ins.a, vm))
      [] ins.op = "not" -> Not_execute(vm)
      [] ins.op = "bnot" -> Bnot_execute(vm)
      [] ins.op = "equ" -> Equ_execute(vm, get_value(ins.a, vm))
      [] ins.op = "neq" -> Neq_execute(vm, get_value(ins.a, vm))
      [] ins.op \in {"gt", "lt", "ge", "le"} ->
            Cmp_execute(vm, CmpName(ins.op), get_value(ins.a, vm))
      [] ins.op \in {"isb", "isi", "isf", "isp", "iss"} -> Is_execute(vm, IsTag(ins.op))
      [] ins.op \in {"csi", "csf", "csp", "css"} -> Cast_execute(vm, ins.op)
      [] ins.op = "arg" -> Arg_execute(vm, ins.u, oc)
      [] ins.op = "cnf" -> Cnf_execute(vm, ins.u, oc)

\* AoVM::step: fetch program[pc], advance pc, execute; Exit past the end
\* a step that advances pc past the end of the program
AoVM_step_exit_advances(vm, prog, oc, h) ==
    IF vm.pc >= 0 /\ vm.pc < Len(prog)
    THEN execute(prog[vm.pc + 1], [vm EXCEPT !.pc = vm.pc + 1], oc, h)
    ELSE Res([vm EXCEPT !.pc = WrapAdd(vm.pc, 1)], St("Exit"))
AoVM_step_no_increment(vm, prog, oc, h) ==
    IF vm.pc >= 0 /\ vm.pc < Len(prog)
    THEN execute(prog[vm.pc + 1], vm, oc, h)
    ELSE Res(vm, St("Exit"))
AoVM_step(vm, prog, oc, h) ==
    IF vm.pc >= 0 /\ vm.pc < Len(prog)
    THEN execute(prog[vm.pc + 1], [vm EXCEPT !.pc = vm.pc + 1], oc, h)
    ELSE Res(vm, St("Exit"))

\* AoVM::reset
AoVM_reset_keeps_mem(vm) == [AoVM_new EXCEPT !.mem = vm.mem]
AoVM_reset(vm) == AoVM_new

(***************************************************************************)
(* The state machine.  One public operation of the VM is one action.       *)
(***************************************************************************)
MaxSteps == 4        \* operations performed in one behaviour
MaxProgLen == 3      \* instructions in a program

\* what an interrupt handler may return: None or Some(value)
HandlerReturns == {<<>>, <<AoInt(7)>>}

NoCall == [op |-> "none", ret |-> <<>>]
Called(op, ret) == [op |-> op, ret |-> ret]

\* the variables that observe memory and the codec, at rest
IdleMem == written = <<>> /\ probe = <<>>
IdleCodec == asm = <<>> /\ bin = <<>> /\ des = <<>> /\ stream = <<>>

\* a VM in state vm about to be stepped through prog by a build with (oc) or
\* without overflow checks
StartVM(vm, prog, oc) ==
    /\ pc = vm.pc /\ dp = vm.dp /\ mp = vm.mp /\ cs = vm.cs /\ dsb = vm.dsb
    /\ ca = vm.ca /\ cb = vm.cb /\ ds = vm.ds /\ mem = vm.mem
    /\ program = prog /\ overflow_checks = oc
    /\ status = NotCalled /\ called = NoCall /\ steps = 0
    /\ int_log = <<>> /\ ds_access = <<>>
    /\ frame = [len |-> Vec_len(vm.ds), dsb |-> vm.dsb, cs |-> Vec_len(vm.cs)]

Start(vm, prog, oc) == StartVM(vm, prog, oc) /\ IdleMem /\ IdleCodec

SetVM(vm) ==
    /\ pc' = vm.pc /\ dp' = vm.dp /\ mp' = vm.mp /\ cs' = vm.cs /\ dsb' = vm.dsb
    /\ ca' = vm.ca /\ cb' = vm.cb /\ ds' = vm.ds /\ mem' = vm.mem

\* the effect of one call of AoVM::step that yields r
Stepped(r) ==
    /\ SetVM(r.vm)
    /\ status' = r.st
    /\ called' = Called("step", <<>>)
    /\ steps' = steps + 1
    /\ int_log' = int_log \o r.calls
    /\ ds_access' = r.acc
    /\ UNCHANGED <<program, overflow_checks, frame, written, probe, asm, bin, des, stream>>

\* one call of AoVM::step with handler result h
DoStep(h) == Stepped(AoVM_step(VM, program, overflow_checks, h))

\* AoVM::step called by an embedder: any number of times, until the thread aborts
Step ==
    /\ status.kind # "Panic"
    /\ steps < MaxSteps
    /\ \E h \in HandlerReturns : DoStep(h)

\* AoVM::step called from the loop of AoVM::run: until a status other than Ok
RunStep(limit) ==
    /\ status.kind \in {"NotCalled", "Ok"}
    /\ steps < limit
    /\ \E h \in HandlerReturns : DoStep(h)

\* the effect of a call of AoVM::push or AoVM::pop by the embedder that yields p
ApiCalled(op, p) ==
    /\ SetVM(p.vm)
    /\ called' = Called(op, <<p.ret>>)
    /\ steps' = steps + 1
    /\ ds_access' = <<>>
    /\ UNCHANGED <<program, overflow_checks, status, int_log, frame, written, probe,
                   asm, bin, des, stream>>

ApiValues == {AoInt(0), AoPtr(0)}

\* AoVM::push(value)
ApiPush ==
    /\ status.kind # "Panic"
    /\ steps < MaxSteps
    /\ \E value \in ApiValues : ApiCalled("push", AoVM_push(VM, value))

\* AoVM::pop()
ApiPop ==
    /\ status.kind # "Panic"
    /\ steps < MaxSteps
    /\ ApiCalled("pop", AoVM_pop(VM))

\* AoVM::reset
Reset ==
    /\ status.kind # "Panic"
    /\ steps < MaxSteps
    /\ SetVM(AoVM_reset(VM))
    /\ called' = Called("reset", <<>>)
    /\ steps' = steps + 1
    /\ ds_access' = <<>>
    /\ UNCHANGED <<program, overflow_checks, status, int_log, frame, written, probe,
                   asm, bin, des, stream>>

(***************************************************************************)
(* Spec: a freshly constructed VM stepped through any program over         *)
(* InstrPool, by either build.                                             *)
(***************************************************************************)
InstrPool ==
    { OpA("push", Imm(AoInt(1))), OpA("push", Reg("DSB")), OpA("push", Reg("DS")),
      OpU("pop", 0), OpU("pop", 1), OpU("cnf", 0), OpU("cnf", 1), OpU("int", 1),
      OpU("call", 2), Op0("ret"), OpU("arg", 0),
      OpAA("mov", Reg("DSB"), Imm(AoPtr(1))), OpAA("mov", Reg("DS"), Reg("CA")),
      OpA("div", Imm(AoInt(0))), OpA("rem", Reg("DS")) }

Programs == UNION {[1..n -> InstrPool] : n \in 1..MaxProgLen}

Init == \E prog \in Programs, oc \in BOOLEAN : Start(AoVM_new, prog, oc)
Next == Step \/ Reset
Spec == Init /\ [][Next]_vars

\* C6: dsb <= |ds| in every state reached by stepping a program from a fresh
\* VM (dsb and |ds| compared as unsigned words).
C6_DsbWithinStack == U32Le(dsb, Vec_len(ds))

\* C7: whenever the ds operand is read or written, dp <= |ds| - 1.
C7_DsOperandInBounds ==
    \A k \in 1..Len(ds_access) : ds_access[k].dp >= 0 /\ ds_access[k].dp <= ds_access[k].len - 1

\* C10: every call of step returns one of the AoStatus values; no call aborts.
C10_StepReturnsStatus == status.kind \in AoStatusKinds \cup {"NotCalled"}

(***************************************************************************)
(* SpecMem: a fresh Memory under any sequence of at most MaxSets calls of  *)
(* Memory::set at addresses that differ in the section, page, chip or cell *)
(* byte.  Memory::get is the operator Memory_get, read by the properties.  *)
(***************************************************************************)
MaxSets == 3

\* 0x0, 0x1, 0x100, 0x101, 0x10000, 0x1000000, 0xFFFFFFFF
Addrs == {0, 1, 256, 257, 65536, 16777216, -1}
MemValues == {AoInt(5), AoPtr(7)}

Readback == [a \in Addrs |-> Memory_get(mem, a)]
Recorded(i, v) ==
    [a \in (DOMAIN written) \cup {i} |->
        IF a = i THEN [value |-> v, count |-> IF i \in DOMAIN written THEN written[i].count + 1
                                              ELSE 1]
        ELSE written[a]]

\* Memory::set(i, v)
MemSet(i, v) ==
    /\ steps < MaxSets
    /\ mem' = Memory_set(mem, i, v)
    /\ written' = Recorded(i, v)
    /\ probe' = <<[addr |-> i, before |-> Readback]>>
    /\ steps' = steps + 1
    /\ called' = Called("set", <<>>)
    /\ UNCHANGED <<pc, dp, mp, cs, dsb, ca, cb, ds, program, overflow_checks, status,
                   int_log, ds_access, frame, asm, bin, des, stream>>

InitMem == Start(AoVM_new, <<>>, TRUE)
NextMem == \E i \in Addrs, v \in MemValues : MemSet(i, v)
SpecMem == InitMem /\ [][NextMem]_vars

\* C3: after any sequence of sets, Memory::get of every address that was never
\* the target of a set returns Int(0).
C3_UntouchedReadsZero ==
    \A i \in Addrs : i \notin DOMAIN written => Memory_get(mem, i) = AoType_default

\* C4: after any sequence of sets, Memory::get of every written address returns
\* the value given to the most recent set of that address.
C4_ReadYourWrite ==
    \A i \in DOMAIN written : Memory_get(mem, i) = written[i].value

\* an address set twice, with another address set as well
C4_Witness ==
    \E i, j \in DOMAIN written : i # j /\ written[i].count = 2 /\ steps = MaxSets

\* C5: Memory::set(j, w) leaves the readback of every address other than j as
\* it was before the call.
C5_NoAlias ==
    \A k \in 1..Len(probe) :
        \A i \in Addrs : i # probe[k].addr => Memory_get(mem, i) = probe[k].before[i]

(***************************************************************************)
(* SpecCallStack: a VM whose call stack is empty or within two entries of  *)
(* the limit, as `call 0` stepped that many times leaves it, above either  *)
(* no frame or the frame that `push dsb; cnf 0` opens, stepped through any *)
(* program over CallPool.                                                  *)
(***************************************************************************)
CallPool ==
    { OpU("call", 0), OpU("call", 1), Op0("ret"), Op0("nop"),
      OpA("push", Reg("DSB")), OpU("cnf", 0) }
CallPrograms == UNION {[1..n -> CallPool] : n \in 1..2}
CsDepths == {0, CS_LIMIT - 2, CS_LIMIT - 1, CS_LIMIT}
Calls(n) == Vec_of(1, n)
Framed(vm) == [vm EXCEPT !.ds = Vec_of(AoPtr(0), 1), !.dsb = 1]
CallStarts == {AoVM_new, Framed(AoVM_new)}

InitCallStack ==
    \E vm \in CallStarts, n \in CsDepths, prog \in CallPrograms, oc \in BOOLEAN :
        Start([vm EXCEPT !.cs = Calls(n)], prog, oc)
NextCallStack == Step
SpecCallStack == InitCallStack /\ [][NextCallStack]_vars

\* the instruction the next call of step fetches is a call
AtCall == pc >= 0 /\ pc < Len(program) /\ program[pc + 1].op = "call"

\* C8: |cs| never exceeds 100000, and a CALL executed with |cs| >= 100000
\* returns CallStackOverflow, leaves cs as it was and leaves pc behind the CALL
\* instead of at its target.
C8_CallStackLimit ==
    /\ Vec_len(cs) <= CS_LIMIT
    /\ [][/\ Vec_len(cs') <= CS_LIMIT
          /\ (steps' = steps + 1 /\ AtCall /\ Vec_len(cs) >= CS_LIMIT) =>
                (status'.kind = "CallStackOverflow" /\ cs' = cs /\ pc' = pc + 1)]_vars

\* `call 0` refused at the limit, after a CALL that reached the limit
C8_Witness ==
    /\ status.kind = "CallStackOverflow" /\ Vec_len(cs) = CS_LIMIT /\ steps >= 2
    /\ program = <<OpU("call", 0)>> /\ pc = 1

(***************************************************************************)
(* SpecDataStack: a VM whose data stack is empty, holds one value, or is   *)
(* within one value of the limit, as AoVM::push(Int(0)) called that many   *)
(* times leaves it; the embedder pushes, pops and steps a one-instruction  *)
(* program, one for every instruction of the set.                          *)
(***************************************************************************)
DsPool ==
    { Op0("nop"), OpU("call", 0), Op0("ret"), OpU("jmp", 0), OpU("jmpa", 0),
      OpU("jt", 0), OpU("jta", 0), OpU("jf", 0), OpU("jfa", 0),
      OpAA("mov", Reg("DS"), Imm(AoInt(3))), OpAA("mov", Reg("DSB"), Reg("DST")),
      OpU("int", 1), OpU("int", 0),
      OpA("push", Imm(AoInt(1))), OpA("push", Reg("DS")), OpA("push", Reg("DST")),
      OpU("pop", 0), OpU("pop", 1),
      OpA("add", Imm(AoInt(1))), OpA("sub", Reg("DS")), OpA("mul", Imm(AoInt(2))),
      OpA("div", Imm(AoInt(2))), OpA("rem", Imm(AoInt(2))), Op0("inc"), Op0("dec"),
      OpA("shl", Imm(AoInt(1))), OpA("shr", Imm(AoInt(1))),
      OpA("and", Imm(AoBool(TRUE))), OpA("or", Reg("DS")), OpA("xor", Imm(AoBool(TRUE))),
      Op0("not"), OpA("band", Imm(AoInt(1))), OpA("bor", Imm(AoInt(1))),
      OpA("bxor", Imm(AoInt(1))), Op0("bnot"),
      OpA("equ", Reg("DS")), OpA("neq", Imm(AoInt(0))), OpA("gt", Imm(AoInt(0))),
      OpA("lt", Imm(AoInt(0))), OpA("ge", Imm(AoInt(0))), OpA("le", Reg("DS")),
      Op0("isb"), Op0("isi"), Op0("isf"), Op0("isp"), Op0("iss"),
      OpU("arg", 0), OpU("cnf", 0), OpU("cnf", 1) }
DsDepths == {0, 1, DS_LIMIT - 1, DS_LIMIT, DS_LIMIT + 1}

InitDataStack ==
    \E ins \in DsPool, n \in DsDepths, oc \in BOOLEAN :
        Start([AoVM_new EXCEPT !.ds = Vec_of(AoInt(0), n)], <<ins>>, oc)
NextDataStack == Step \/ ApiPush \/ ApiPop
SpecDataStack == InitDataStack /\ [][NextDataStack]_vars

\* the instruction the next call of step fetches is a push
AtPush == pc >= 0 /\ pc < Len(program) /\ program[pc + 1].op = "push"

\* ds_ is ds with exactly one value appended
Appended(ds_) == Vec_len(ds_) = Vec_len(ds) + 1 /\ Vec_truncate(ds_, Vec_len(ds)) = ds

MaxArgs == 2

ArgOperands == {Imm(AoInt(1)), Imm(AoString(<<97>>)), Reg("DS"), Reg("DST"), Reg("CA")}
IntIds == {1, 255}
FrameProgram(args, k) ==
    <<OpA("push", Reg("DSB"))>> \o [i \in 1..Len(args) |-> OpA("push", args[i])]
        \o <<OpU("cnf", Len(args)), OpU("int", k)>>
FramePrograms ==
    {FrameProgram(args, k) : args \in UNION {[1..n -> ArgOperands] : n \in 0..MaxArgs},
                             k \in IntIds}
FrameStacks ==
    { <<>>, Vec_of(AoInt(1), 1), Vec_push(Vec_of(AoPtr(0), 1), AoInt(2)),
      Vec_of(AoInt(0), DS_LIMIT - 1), Vec_of(AoInt(0), DS_LIMIT),
      Vec_of(AoInt(0), DS_LIMIT + 1) }
FrameBases == {0, 1, 2, 3, -1}
FramePointers == {0, 1}

InitFrame ==
    \E stack \in FrameStacks, base \in FrameBases, ptr \in FramePointers,
       prog \in FramePrograms, oc \in BOOLEAN :
        Start([AoVM_new EXCEPT !.ds = stack, !.dsb = base, !.dp = ptr], prog, oc)
NextFrame == RunStep(MaxArgs + 4)
SpecFrame == InitFrame /\ [][NextFrame]_vars

\* C2: once run has executed `push dsb; push arg1 .. push argN; cnf N; int k`
\* (k # 0, every instruction before the int having returned Ok), the int has
\* returned Ok, and |ds| and dsb are what they were before the sequence,
\* whatever the handler returned.
C2_FrameUnwind ==
    steps = Len(program) =>
        status.kind = "Ok" /\ Vec_len(ds) = frame.len /\ dsb = frame.dsb

\* the sequence with MaxArgs arguments, run from a stack that held values
\* under a frame base that pointed above it
C2_Witness ==
    /\ steps = Len(program) /\ Len(program) = MaxArgs + 3 /\ status.kind = "Ok"
    /\ frame.len = 2 /\ frame.dsb = 3 /\ Len(int_log) = 1

(***************************************************************************)
(* AoAsmSerializer, over the instruction set of runtime/opcode.rs: the     *)
(* mnemonics of serialize_opcode, AoArg with PC, DP and GVS.  A byte       *)
(* vector is a sequence of 0..255; value[i] of the source is value[i + 1]  *)
(* here.  Strings are their UTF-8 bytes, shorter than 2^31.                *)
(***************************************************************************)
serialize_type(value) ==
    CASE value.tag = "Bool" -> <<1, IF value.n # 0 THEN 1 ELSE 0>>
      [] value.tag = "Int" -> <<2>> \o le_bytes(value.n)
      [] value.tag = "Float" -> <<3>> \o le_bytes(value.n)
      [] value.tag = "Ptr" -> <<4>> \o le_bytes(value.n)
      [] value.tag = "String" -> <<5>> \o le_bytes(Len(value.s)) \o value.s

\* an AoArg tag table that swaps CA and DS
ArgTag_swapped(reg) ==
    CASE reg = "DSB" -> 1 [] reg = "DST" -> 2 [] reg = "PC" -> 3 [] reg = "DP" -> 4
      [] reg = "CA" -> 6 [] reg = "DS" -> 5 [] reg = "GVS" -> 7 [] reg = "IMM" -> 8

ArgTag(reg) ==
    CASE reg = "DSB" -> 1 [] reg = "DST" -> 2 [] reg = "PC" -> 3 [] reg = "DP" -> 4
      [] reg = "CA" -> 5 [] reg = "DS" -> 6 [] reg = "GVS" -> 7 [] reg = "IMM" -> 8

serialize_arg(arg) ==
    IF arg.reg = "IMM" THEN <<ArgTag(arg.reg)>> \o serialize_type(arg.imm)
    ELSE <<ArgTag(arg.reg)>>

\* the id byte serialize_opcode pushes first
SerOpcodeId(op) ==
    CASE op = "nop" -> 0 [] op = "call" -> 16 [] op = "ret" -> 17 [] op = "jmp" -> 18
      [] op = "jt" -> 19 [] op = "jf" -> 20 [] op = "mov" -> 32 [] op = "int" -> 33
      [] op = "push" -> 48 [] op = "pop" -> 49 [] op = "add" -> 64 [] op = "sub" -> 65
      [] op = "mul" -> 66 [] op = "div" -> 67 [] op = "rem" -> 68 [] op = "inc" -> 69
      [] op = "dec" -> 70 [] op = "and" -> 80 [] op = "or" -> 81 [] op = "xor" -> 82
      [] op = "not" -> 83 [] op = "band" -> 96 [] op = "bor" -> 97 [] op = "bxor" -> 98
      [] op = "bnot" -> 99 [] op = "shl" -> 112 [] op = "shr" -> 113 [] op = "equ" -> 128
      [] op = "neq" -> 129 [] op = "gt" -> 130 [] op = "lt" -> 131 [] op = "ge" -> 132
      [] op = "le" -> 133 [] op = "csi" -> 144 [] op = "csf" -> 145 [] op = "csp" -> 146
      [] op = "css" -> 147 [] op = "isb" -> 160 [] op = "isi" -> 161 [] op = "isf" -> 162
      [] op = "isp" -> 163 [] op = "iss" -> 164 [] op = "arg" -> 176 [] op = "cnf" -> 177

SerU32Ops == {"call", "jmp", "jt", "jf", "arg", "cnf"}
SerArgOps ==
    {"push", "add", "sub", "mul", "div", "rem", "and", "or", "xor", "band", "bor", "bxor",
     "shl", "shr", "equ", "neq", "gt", "lt", "ge", "le"}

serialize_opcode(ins) ==
    <<SerOpcodeId(ins.op)>> \o
        (CASE ins.op \in SerU32Ops -> le_bytes(ins.u)
           [] ins.op = "mov" -> serialize_arg(ins.a) \o serialize_arg(ins.b)
           [] ins.op = "int" -> <<ins.u>>
           [] ins.op = "pop" -> <<IF ins.u # 0 THEN 1 ELSE 0>>
           [] ins.op \in SerArgOps -> serialize_arg(ins.a)
           [] OTHER -> <<>>)

RECURSIVE serialize_first(_, _)
\* the bytes of the first k instructions
serialize_first(asm_, k) ==
    IF k = 0 THEN <<>> ELSE serialize_first(asm_, k - 1) \o serialize_opcode(asm_[k])

serialize(asm_) == serialize_first(asm_, Len(asm_))

\* what a deserialize_* call yields: Some(v) with the offset it leaves, None,
\* or the panic of an index out of range, of an unwrap of None or of invalid UTF-8
DSome(v, offset) == [kind |-> "Some", v |-> v, offset |-> offset]
DNone == [kind |-> "None", v |-> <<>>, offset |-> 0]
DPanic == [kind |-> "Panic", v |-> <<>>, offset |-> 0]

Byte(value, i) == value[i + 1]
\* from_le_bytes(value[end - 4..end])
Word(value, end) == from_le_bytes(SubSeq(value, end - 3, end))

\* String::from_utf8(bytes).is_ok()
Cont(b) == b >= 128 /\ b <= 191
SecondOf3(lead) == IF lead = 224 THEN 160..191 ELSE IF lead = 237 THEN 128..159 ELSE 128..191
SecondOf4(lead) == IF lead = 240 THEN 144..191 ELSE IF lead = 244 THEN 128..143 ELSE 128..191
RECURSIVE Utf8From(_, _)
Utf8From(b, i) ==
    IF i > Len(b) THEN TRUE
    ELSE IF b[i] < 128 THEN Utf8From(b, i + 1)
    ELSE IF b[i] \in 194..223 THEN i + 1 <= Len(b) /\ Cont(b[i + 1]) /\ Utf8From(b, i + 2)
    ELSE IF b[i] \in 224..239
    THEN /\ i + 2 <= Len(b) /\ b[i + 1] \in SecondOf3(b[i]) /\ Cont(b[i + 2])
         /\ Utf8From(b, i + 3)
    ELSE IF b[i] \in 240..244
    THEN /\ i + 3 <= Len(b) /\ b[i + 1] \in SecondOf4(b[i]) /\ Cont(b[i + 2])
         /\ Cont(b[i + 3]) /\ Utf8From(b, i + 4)
    ELSE FALSE
Utf8Valid(b) == Utf8From(b, 1)

WordValue(tag, value, end) ==
    IF end > Len(value) THEN DPanic
    ELSE DSome([tag |-> tag, n |-> Word(value, end), s |-> <<>>], end)
StringOf(bytes, end) == IF Utf8Valid(bytes) THEN DSome(AoString(bytes), end) ELSE DPanic
\* start: the offset behind the length word; str_len as usize
StringValue(value, start, str_len) ==
    IF str_len < 0 \/ str_len > Len(value) - start THEN DPanic
    ELSE StringOf(SubSeq(value, start + 1, start + str_len), start + str_len)

deserialize_type(value, offset) ==
    IF offset >= Len(value) THEN DPanic
    ELSE CASE Byte(value, offset) = 1 ->
                IF offset + 2 > Len(value) THEN DPanic
                ELSE DSome(AoBool(Byte(value, offset + 1) # 0), offset + 2)
           [] Byte(value, offset) = 2 -> WordValue("Int", value, offset + 5)
           [] Byte(value, offset) = 3 -> WordValue("Float", value, offset + 5)
           [] Byte(value, offset) = 4 -> WordValue("Ptr", value, offset + 5)
           [] Byte(value, offset) = 5 ->
                IF offset + 5 > Len(value) THEN DPanic
                ELSE StringValue(value, offset + 5, Word(value, offset + 5))
           [] OTHER -> DNone

\* AoArg::Imm(r.unwrap())
ImmArg(r) == IF r.kind = "Some" THEN DSome(Imm(r.v), r.offset) ELSE DPanic

DesArgReg(tag) ==
    CASE tag = 1 -> "DSB" [] tag = 2 -> "DST" [] tag = 3 -> "PC" [] tag = 4 -> "DP"
      [] tag = 5 -> "CA" [] tag = 6 -> "DS" [] tag = 7 -> "GVS" [] OTHER -> "NONE"

deserialize_arg(value, offset) ==
    IF offset >= Len(value) THEN DPanic
    ELSE IF Byte(value, offset) = 8 THEN ImmArg(deserialize_type(value, offset + 1))
    ELSE IF DesArgReg(Byte(value, offset)) # "NONE"
    THEN DSome(Reg(DesArgReg(Byte(value, offset))), offset + 1)
    ELSE DNone

\* the variant deserialize_opcode builds for an id byte, "" for the `_` arm
DesOpcode(id) ==
    CASE id = 0 -> "nop" [] id = 16 -> "call" [] id = 17 -> "ret" [] id = 18 -> "jmp"
      [] id = 19 -> "jt" [] id = 20 -> "jf" [] id = 32 -> "mov" [] id = 33 -> "int"
      [] id = 48 -> "push" [] id = 49 -> "pop" [] id = 64 -> "add" [] id = 65 -> "sub"
      [] id = 66 -> "mul" [] id = 67 -> "div" [] id = 68 -> "rem" [] id = 69 -> "inc"
      [] id = 70 -> "dec" [] id = 80 -> "and" [] id = 81 -> "or" [] id = 82 -> "xor"
      [] id = 83 -> "not" [] id = 96 -> "band" [] id = 97 -> "bor" [] id = 98 -> "bxor"
      [] id = 99 -> "bnot" [] id = 112 -> "shl" [] id = 113 -> "shr" [] id = 128 -> "equ"
      [] id = 129 -> "neq" [] id = 130 -> "gt" [] id = 131 -> "lt" [] id = 132 -> "ge"
      [] id = 133 -> "le" [] id = 144 -> "csi" [] id = 145 -> "csf" [] id = 146 -> "csp"
      [] id = 147 -> "css" [] id = 160 -> "isb" [] id = 161 -> "isi" [] id = 162 -> "isf"
      [] id = 163 -> "isp" [] id = 164 -> "iss" [] id = 176 -> "arg" [] id = 177 -> "cnf"
      [] OTHER -> ""

DesU32Ids == {16, 18, 19, 20, 176, 177}
DesArgIds == {48, 64, 65, 66, 67, 68, 80, 81, 82, 96, 97, 98, 112, 113,
              128, 129, 130, 131, 132, 133}

\* an opcode of one AoArg, r being deserialize_arg(..).unwrap() before the unwrap
ArgOp(op, r) == IF r.kind = "Some" THEN DSome(OpA(op, r.v), r.offset) ELSE DPanic
\* MOV(dst, src), r being the src
MovSrc(dst, r) == IF r.kind = "Some" THEN DSome(OpAA("mov", dst, r.v), r.offset) ELSE DPanic
\* r being the dst
MovDst(value, r) ==
    IF r.kind = "Some" THEN MovSrc(r.v, deserialize_arg(value, r.offset)) ELSE DPanic

\* offset < value.len() holds at every call
deserialize_opcode(value, offset) ==
    CASE Byte(value, offset) \in DesU32Ids ->
            IF offset + 5 > Len(value) THEN DPanic
            ELSE DSome(OpU(DesOpcode(Byte(value, offset)), Word(value, offset + 5)), offset + 5)
      [] Byte(value, offset) = 32 -> MovDst(value, deserialize_arg(value, offset + 1))
      [] Byte(value, offset) = 33 ->
            IF offset + 2 > Len(value) THEN DPanic
            ELSE DSome(OpU("int", Byte(value, offset + 1)), offset + 2)
      [] Byte(value, offset) = 49 ->
            IF offset + 2 > Len(value) THEN DPanic
            ELSE DSome(OpU("pop", IF Byte(value, offset + 1) # 0 THEN 1 ELSE 0), offset + 2)
      [] Byte(value, offset) \in DesArgIds ->
            ArgOp(DesOpcode(Byte(value, offset)), deserialize_arg(value, offset + 1))
      [] OTHER ->
            IF DesOpcode(Byte(value, offset)) # ""
            THEN DSome(Op0(DesOpcode(Byte(value, offset))), offset + 1)
            ELSE DNone

\* Option<Vec<AoOpCode>>, or the panic
Decoded(kind, result) == [kind |-> kind, v |-> result]

RECURSIVE deserialize_from(_, _, _)
\* the loop of deserialize, r being what deserialize_opcode yielded
deserialize_next_skips(value, result, r) ==
    IF r.kind = "Some" THEN deserialize_from(value, r.offset, Append(result, r.v))
    ELSE IF r.kind = "None" THEN Decoded("Some", result)
    ELSE Decoded(r.kind, <<>>)
deserialize_next(value, result, r) ==
    IF r.kind = "Some" THEN deserialize_from(value, r.offset, Append(result, r.v))
    ELSE Decoded(r.kind, <<>>)
deserialize_from(value, offset, result) ==
    IF offset < Len(value)
    THEN deserialize_next(value, result, deserialize_opcode(value, offset))
    ELSE Decoded("Some", result)

deserialize(value) == deserialize_from(value, 0, <<>>)

(***************************************************************************)
(* SpecCodec: a program over CodecPool is serialized, and the bytes are    *)
(* deserialized, as main does.                                             *)
(***************************************************************************)
MaxCodecLen == 2

\* immediates of every tag: both booleans; integers, floats and pointers with
\* bytes 0x00, 0xFF and bytes equal to tags and opcode ids; strings of 0 to 4
\* bytes of UTF-8, some equal to tags and opcode ids
CodecValues ==
    { AoBool(TRUE), AoBool(FALSE),
      AoInt(0), AoInt(-1), AoInt(I32_MIN), AoInt(134546437),
      AoFloat(I32_MIN), AoFloat(F32_ONE), AoFloat(F32_NAN),
      AoPtr(-1), AoPtr(177),
      AoString(<<>>), AoString(<<97>>), AoString(<<8, 5>>),
      AoString(<<195, 169>>), AoString(<<240, 159, 146, 150>>) }
CodecArgs ==
    {Reg(r) : r \in {"DSB", "DST", "PC", "DP", "CA", "DS", "GVS"}}
        \cup {Imm(v) : v \in CodecValues}
CodecPool ==
    {Op0(op) : op \in {"nop", "ret", "inc", "dec", "not", "bnot", "csi", "csf", "csp", "css",
                       "isb", "isi", "isf", "isp", "iss"}}
        \cup { OpU("call", 0), OpU("call", -1), OpU("jmp", 8), OpU("jt", 134546437),
               OpU("jf", 1), OpU("arg", 255), OpU("cnf", 65536),
               OpU("int", 0), OpU("int", 255), OpU("pop", 0), OpU("pop", 1) }
        \cup {OpA("push", a) : a \in CodecArgs}
        \cup {OpA(op, Reg("DS")) : op \in {"add", "mul", "rem", "or", "band", "bxor", "shr",
                                           "neq", "lt", "le"}}
        \cup {OpA(op, Imm(AoInt(1))) : op \in {"sub", "div", "and", "xor", "bor", "shl",
                                               "equ", "gt", "ge"}}
        \cup { OpAA("mov", Reg("DS"), Reg("DSB")), OpAA("mov", Reg("CA"), Imm(AoString(<<97>>))),
               OpAA("mov", Reg("GVS"), Imm(AoBool(TRUE))) }
CodecPrograms == UNION {[1..n -> CodecPool] : n \in 0..MaxCodecLen}

InitCodec ==
    /\ StartVM(AoVM_new, <<>>, TRUE)
    /\ IdleMem
    /\ asm \in CodecPrograms /\ bin = <<>> /\ des = <<>> /\ stream = <<>>

CodecCalled(op) ==
    /\ called' = Called(op, <<>>)
    /\ steps' = steps + 1
    /\ UNCHANGED <<pc, dp, mp, cs, dsb, ca, cb, ds, mem, program, overflow_checks, status,
                   int_log, ds_access, frame, written, probe, asm, stream>>

\* let bin = AoAsmSerializer::serialize(&program)
Serialize ==
    /\ called.op = "none"
    /\ bin' = serialize(asm)
    /\ des' = des
    /\ CodecCalled("serialize")

\* AoAsmSerializer::deserialize(&bin)
Deserialize ==
    /\ called.op = "serialize"
    /\ des' = <<deserialize(bin)>>
    /\ bin' = bin
    /\ CodecCalled("deserialize")

NextCodec == Serialize \/ Deserialize
SpecCodec == InitCodec /\ [][NextCodec]_vars

\* C1: deserialize(serialize(p)) is Some program, equal to p instruction by
\* instruction and operand by operand (floats compared by their bits).
C1_RoundTrip == called.op = "deserialize" => des = <<Decoded("Some", asm)>>

\* a round trip of MaxCodecLen instructions, the first a push of a string of
\* several bytes, the last a mov
C1_Witness ==
    /\ called.op = "deserialize" /\ Len(asm) = MaxCodecLen
    /\ asm[1].op = "push" /\ asm[1].a.imm.tag = "String" /\ Len(asm[1].a.imm.s) > 1
    /\ asm[Len(asm)].op = "mov"


(***************************************************************************)
(* SpecStream: deserialize is handed bytes that no serialize call made:    *)
(* the serialization of a program cut short or with one byte replaced.     *)
(* When it yields a program, the program is serialized again.              *)
(***************************************************************************)
MaxStreamLen == 2
StreamPool ==
    { Op0("nop"), OpU("call", 5), OpU("int", 1), OpU("pop", 1),
      OpA("push", Imm(AoBool(TRUE))), OpA("push", Imm(AoString(<<97, 98>>))),
      OpA("add", Reg("CA")), OpAA("mov", Reg("DS"), Imm(AoInt(3))) }
StreamPrograms == UNION {[1..n -> StreamPool] : n \in 1..MaxStreamLen}
\* bytes that are no opcode id (2, 9, 255), no AoArg tag and no value tag
\* (0, 9, 255), and a bool byte other than 0x00 and 0x01
PatchBytes == {0, 2, 9, 255}
Prefixes(b) == {SubSeq(b, 1, k) : k \in 0..Len(b)}
Patched(b) == {[b EXCEPT ![i] = x] : i \in 1..Len(b), x \in PatchBytes}
StreamsOf(p) == Prefixes(serialize(p)) \cup Patched(serialize(p))

InitStream ==
    /\ StartVM(AoVM_new, <<>>, TRUE)
    /\ IdleMem
    /\ asm \in StreamPrograms /\ stream \in StreamsOf(asm) /\ bin = <<>> /\ des = <<>>

\* AoAsmSerializer::deserialize(&stream)
DeserializeStream ==
    /\ called.op = "none"
    /\ des' = <<deserialize(stream)>>
    /\ bin' = bin
    /\ CodecCalled("deserialize")

\* AoAsmSerializer::serialize(&p), p being the program deserialize returned
Reserialize ==
    /\ called.op = "deserialize" /\ des[1].kind = "Some"
    /\ bin' = serialize(des[1].v)
    /\ des' = des
    /\ CodecCalled("serialize")

NextStream == DeserializeStream \/ Reserialize
SpecStream == InitStream /\ [][NextStream]_vars

\* the stream is the serialization of asm up to byte i - 1 (i counted from 1)
SameBefore(i) ==
    i <= Len(stream) /\ SubSeq(stream, 1, i - 1) = SubSeq(serialize(asm), 1, i - 1)
\* the index of the opcode id of the k-th instruction record of serialize(asm)
IdAt(k) == Len(serialize_first(asm, k - 1)) + 1
KnownIds == {id \in 0..255 : DesOpcode(id) # ""}

\* the stream holds the records of the first k - 1 instructions of asm and,
\* where the next record starts, a byte that is no opcode id
UnknownIdAt(k) == SameBefore(IdAt(k)) /\ stream[IdAt(k)] \notin KnownIds

\* C12: deserialize returns None for every stream with a byte that is no
\* opcode id where an instruction record starts, whatever was decoded before.
C12_UnknownOpcodeIsNone ==
    (called.op = "deserialize" /\ \E k \in 1..Len(asm) : UnknownIdAt(k))
        => des = <<Decoded("None", <<>>)>>

\* None after one decoded instruction of several bytes
C12_Witness ==
    /\ called.op = "deserialize" /\ Len(asm) = 2 /\ IdAt(2) > 2 /\ UnknownIdAt(2)
    /\ des = <<Decoded("None", <<>>)>>

\* the indices in serialize(asm) of the AoArg tag bytes of an instruction
\* whose record starts at index id, and of the value tag bytes of its immediates
ArgTagsIn(ins, id) ==
    IF ins.op = "mov" THEN {id + 1, id + 1 + Len(serialize_arg(ins.a))}
    ELSE IF ins.op \in SerArgOps THEN {id + 1}
    ELSE {}
ValueTagsIn(ins, id) ==
    IF ins.op = "mov"
    THEN {id + 2 : x \in {ins.a} \cap {Imm(ins.a.imm)}}
            \cup {id + 2 + Len(serialize_arg(ins.a)) : x \in {ins.b} \cap {Imm(ins.b.imm)}}
    ELSE IF ins.op \in SerArgOps THEN {id + 2 : x \in {ins.a} \cap {Imm(ins.a.imm)}}
    ELSE {}
ArgTags == 1..8
ValueTags == 1..5
UnknownArgTag ==
    \E k \in 1..Len(asm) : \E i \in ArgTagsIn(asm[k], IdAt(k)) :
        SameBefore(i) /\ stream[i] \notin ArgTags
UnknownValueTag ==
    \E k \in 1..Len(asm) : \E i \in ValueTagsIn(asm[k], IdAt(k)) :
        SameBefore(i) /\ stream[i] \notin ValueTags

\* C13: deserialize returns None, and does not abort, for every stream in
\* which an AoArg has an unknown tag byte or an immediate an unknown value
\* tag byte.
C13_UnknownTagIsNone ==
    (called.op = "deserialize" /\ (UnknownArgTag \/ UnknownValueTag))
        => des = <<Decoded("None", <<>>)>>

\* the stream is serialize(asm) cut inside the k-th record, behind its opcode id
TruncatedIn(k) ==
    /\ Len(stream) >= IdAt(k) /\ Len(stream) < Len(serialize_first(asm, k))
    /\ stream = SubSeq(serialize(asm), 1, Len(stream))

\* C14: deserialize returns None, and does not abort, for every proper prefix
\* of serialize(p) that ends inside an instruction record.
C14_TruncatedIsNone ==
    (called.op = "deserialize" /\ \E k \in 1..Len(asm) : TruncatedIn(k))
        => des = <<Decoded("None", <<>>)>>

\* C15: every stream that deserialize turns into a program p is serialize(p).
C15_StreamIsSerialization == called.op = "serialize" => bin = stream

(***************************************************************************)
(* The tests and examples written against the enum AoOpCode                *)
(* (src/src/runtime/opcode.rs): its JMP, JT and JF take an absolute        *)
(* address; the other arms the test programs use read as the opcodes above.*)
(***************************************************************************)
AoOpCode_execute_relative(ins, vm, oc, h) == execute(ins, vm, oc, h)
AoOpCode_execute(ins, vm, oc, h) ==
    CASE ins.op = "jmp" -> Jmpa_execute(vm, ins.u)
      [] ins.op = "jt" -> Jta_execute(vm, ins.u)
      [] ins.op = "jf" -> Jfa_execute(vm, ins.u)
      [] ins.op \in {"push", "arg", "mov", "le", "add", "inc", "cnf", "int"} ->
            execute(ins, vm, oc, h)

\* AoVM::step of src/src/runtime/vm.rs
AoVM_step_AoOpCode(vm, prog, oc, h) ==
    IF vm.pc >= 0 /\ vm.pc < Len(prog)
    THEN AoOpCode_execute(prog[vm.pc + 1], [vm EXCEPT !.pc = vm.pc + 1], oc, h)
    ELSE Res(vm, St("Exit"))

\* step called until it returns a status other than Ok, as AoVM::run and the
\* loop of the single_step test do
RunStepAoOpCode(limit) ==
    /\ status.kind \in {"NotCalled", "Ok"}
    /\ steps < limit
    /\ \E h \in HandlerReturns :
          Stepped(AoVM_step_AoOpCode(VM, program, overflow_checks, h))

\* tests/single_step.rs: 1 + 2 + ... + 10
SumProgram ==
    << OpA("push", Imm(AoInt(1))), OpA("push", Imm(AoInt(0))), OpU("arg", 0),
       OpAA("mov", Reg("CA"), Reg("DS")), OpA("le", Imm(AoInt(10))), OpU("jf", 15),
       OpAA("mov", Reg("CA"), Reg("DS")), OpU("arg", 1), OpA("add", Reg("DS")),
       OpAA("mov", Reg("DS"), Reg("CA")), OpU("arg", 0), OpAA("mov", Reg("CA"), Reg("DS")),
       Op0("inc"), OpAA("mov", Reg("DS"), Reg("CA")), OpU("jmp", 2),
       OpA("push", Reg("DSB")), OpU("arg", 1), OpA("push", Reg("DS")), OpU("cnf", 1),
       OpU("int", 2) >>
MaxSumSteps == 150

InitSum == \E oc \in BOOLEAN : Start(AoVM_new, SumProgram, oc)
NextSum == RunStepAoOpCode(MaxSumSteps)
SpecSum == InitSum /\ [][NextSum]_vars
\* the test calls step again as long as the last call returned Ok
SpecSumFair == SpecSum /\ WF_vars(NextSum)

\* the one call of the handler: interrupt 2 with [Int(55)]
SumCall == [id |-> 2, args |-> Vec_of(AoInt(55), 1)]
\* the steps of ten rounds of the loop 2..14, the 2 pushes before it, the
\* 4 instructions of the last test, the 5 instructions behind the loop and
\* the step past the end
SumSteps == 2 + 10 * 13 + 4 + 5 + 1

\* C17: stepping the program of the single_step test from a fresh VM ends:
\* the loop is left after ten rounds, interrupt 2 is called exactly once, with
\* [Int(55)], and the step after it returns Exit.
C17_SumTerminates ==
    /\ <>(status.kind = "Exit" /\ steps = SumSteps /\ int_log = <<SumCall>>)
    /\ [](int_log \in {<<>>, <<SumCall>>})

\* the end of the run: Exit, a = 11 and b = 55 left on the stack
C17_Witness ==
    /\ status.kind = "Exit" /\ int_log = <<SumCall>> /\ dsb = 0
    /\ ds = Vec_push(Vec_of(AoInt(11), 1), AoInt(55))

(***************************************************************************)
(* SpecHandler: `push base; push arg1 .. push argN; cnf N; int id` run on  *)
(* a VM with empty stacks whose handler returns Some(Int(99)) for          *)
(* interrupt 5 and None for every other id (the handler of hello_aoi,      *)
(* which prints).                                                          *)
(***************************************************************************)
Hello == AoString(<<72, 101, 108, 108, 111, 32, 65, 111, 105, 33>>)   \* "Hello Aoi!"
HandlerArgs == {Imm(AoInt(1)), Imm(AoInt(2)), Imm(Hello)}
HandlerBases == {Reg("DSB"), Imm(AoPtr(7))}
HandlerProgram(base, args, id) ==
    <<OpA("push", base)>> \o [i \in 1..Len(args) |-> OpA("push", args[i])]
        \o <<OpU("cnf", Len(args)), OpU("int", id)>>
HandlerPrograms ==
    {HandlerProgram(base, args, id) :
        base \in HandlerBases, args \in UNION {[1..n -> HandlerArgs] : n \in 1..MaxArgs},
        id \in {1, 5}}

\* what the handler returns when the instruction ins is an int
Handler(ins) == IF ins.op = "int" /\ ins.u = 5 THEN <<AoInt(99)>> ELSE <<>>
\* the instruction the next step executes, if any
Fetch == IF pc >= 0 /\ pc < Len(program) THEN program[pc + 1] ELSE Op0("nop")

\* ca as new() leaves it, or a value left by earlier work
HandlerAccs == {AoType_default, AoBool(TRUE)}
InitHandler ==
    \E prog \in HandlerPrograms, acc \in HandlerAccs, oc \in BOOLEAN :
        Start([AoVM_new EXCEPT !.ca = acc], prog, oc)
\* AoVM::run: step until a status other than Ok
NextHandler ==
    /\ status.kind \in {"NotCalled", "Ok"}
    /\ DoStep(Handler(Fetch))
SpecHandler == InitHandler /\ [][NextHandler]_vars

IntFrame ==
    HandlerProgram(Imm(AoPtr(7)), <<Imm(AoInt(1)), Imm(AoInt(2))>>, 5)
IntFrameCall == [id |-> 5, args |-> Vec_push(Vec_of(AoInt(1), 1), AoInt(2))]

\* C16 as stated: after the int step of [push 7p; push 1; push 2; cnf 2;
\* int 5], ds = [Ptr(7)], ca = Int(99), dsb = 0 and the handler got
\* [Int(1), Int(2)].
C16_FrameAfterInt ==
    (program = IntFrame /\ steps = Len(IntFrame)) =>
        /\ status = Ok /\ ds = Vec_of(AoPtr(7), 1) /\ dsb = 0
        /\ ca = AoInt(99) /\ int_log = <<IntFrameCall>>

\* C16 amended: after the int step of [push 7p; push 1; push 2; cnf 2; int 5]
\* ds is empty, dsb = 7 (the pointer read from ds[0]), ca = Int(99) and the
\* handler got [Int(1), Int(2)].
C16_FrameUnwound ==
    (program = IntFrame /\ steps = Len(IntFrame)) =>
        /\ status = Ok /\ ds = <<>> /\ dsb = 7
        /\ ca = AoInt(99) /\ int_log = <<IntFrameCall>>

C16_Witness ==
    /\ program = IntFrame /\ steps = Len(IntFrame) /\ called.op = "step"
    /\ ca = AoInt(99) /\ dsb = 7

HelloProgram == HandlerProgram(Reg("DSB"), <<Imm(Hello)>>, 1)
HelloCall == [id |-> 1, args |-> Vec_of(Hello, 1)]

\* C18: running [push dsb; push "Hello Aoi!"; cnf 1; int 1] on a fresh VM
\* calls the handler exactly once, with id 1 and [String("Hello Aoi!")];
\* the run returns Exit with ds empty and dsb = 0.
C18_HelloRuns ==
    program = HelloProgram =>
        /\ int_log \in {<<>>, <<HelloCall>>}
        /\ steps >= Len(HelloProgram) => (int_log = <<HelloCall>> /\ ds = <<>> /\ dsb = 0)
        /\ steps = Len(HelloProgram) => status = Ok
        /\ steps > Len(HelloProgram) => (status.kind = "Exit" /\ steps = Len(HelloProgram) + 1)

\* the run has returned Exit
C18_Witness ==
    /\ program = HelloProgram /\ status.kind = "Exit" /\ int_log = <<HelloCall>>
    /\ ds = <<>> /\ dsb = 0

(***************************************************************************)
(* One operator instruction stepped on a VM whose ca holds a value of any  *)
(* tag, the operand an immediate of any tag.                               *)
(***************************************************************************)
OperValues ==
    {AoBool(TRUE), AoBool(FALSE),
     AoInt(0), AoInt(1), AoInt(2), AoInt(-1), AoInt(I32_MAX),
     AoFloat(0), AoFloat(F32_ONE), AoFloat(F32_NAN),
     AoPtr(0), AoPtr(1), AoPtr(-1),
     AoString(<<>>), AoString(<<97>>), AoString(<<98>>)}
IsOps == {"isb", "isi", "isf", "isp", "iss"}
OperPool ==
    {OpA(op, Imm(v)) : op \in BinOperOps \cup {"equ", "neq"}, v \in OperValues}
        \cup {Op0(op) : op \in IsOps}

InitOper ==
    \E v \in OperValues, ins \in OperPool, oc \in BOOLEAN :
        Start([AoVM_new EXCEPT !.ca = v], <<ins>>, oc)
NextOper == Step
SpecOper == InitOper /\ [][NextOper]_vars

\* the instruction the next step fetches, if any
AtIns(ops) == pc >= 0 /\ pc < Len(program) /\ program[pc + 1].op \in ops
\* what the operator of the fetched instruction returns for ca and the operand
Applied ==
    apply(BinOperName(program[pc + 1].op), ca, program[pc + 1].a.imm, overflow_checks)

\* C11: no step returns Return(_): when the operator of a binary-operator
\* instruction succeeds, the step returns Ok and ca holds the operator's value.
C11_ReturnNeverEscapes ==
    /\ status.kind # "Return"
    /\ [][/\ status'.kind # "Return"
          /\ (AtIns(BinOperOps) /\ Applied.kind = "Return")
                => (status' = Ok /\ ca' = Applied.vals[1])]_vars

\* 1 + 2 stepped: Ok and ca = 3
C11_Witness ==
    /\ called.op = "step" /\ steps = 1 /\ program = <<OpA("add", Imm(AoInt(2)))>>
    /\ status = Ok /\ ca = AoInt(3)


\* `==` of AoType (derived PartialEq): same variant and equal payloads, f32
\* payloads compared as numbers
AoType_eq(left, right) == left.tag = right.tag /\ SameTagEq(left, right)

CommutativeOps == {"add", "mul", "band", "bor", "bxor"}
\* the operator of the fetched instruction with its operands exchanged
Mirrored ==
    apply(BinOperName(program[pc + 1].op), program[pc + 1].a.imm, ca, overflow_checks)
\* what the fetched equ or neq leaves in ca with its operands exchanged
MirroredEqu ==
    execute(OpA(program[pc + 1].op, Imm(ca)), [VM EXCEPT !.ca = program[pc + 1].a.imm],
            overflow_checks, <<>>).vm.ca
\* the pairs whose two orders take different arms of apply or concatenate
OrderedPair(left, right) ==
    \/ left.tag = "String" /\ right.tag = "String"
    \/ {left.tag, right.tag} = {"Ptr", "Int"}
IsNaN(value) == value.tag = "Float" /\ F32IsNaN(value.n)

\* C19 as stated: for ADD, MUL, BAND, BOR, BXOR, EQU and NEQ and values a, b
\* of any tags, a op b and b op a return the same value whenever both succeed.
C19_OperatorSymmetry ==
    [][/\ (AtIns(CommutativeOps) /\ status' = Ok /\ Mirrored.kind = "Return")
            => AoType_eq(ca', Mirrored.vals[1])
       /\ AtIns({"equ", "neq"}) => AoType_eq(ca', MirroredEqu)]_vars

\* C19 amended: the same for values that are not two Strings nor one Ptr and
\* one Int, when the result is no NaN; EQU and NEQ for all values.
C19_SymmetryOfLikeOperands ==
    [][/\ (/\ AtIns(CommutativeOps) /\ status' = Ok /\ Mirrored.kind = "Return"
           /\ ~OrderedPair(ca, program[pc + 1].a.imm) /\ ~IsNaN(ca'))
            => AoType_eq(ca', Mirrored.vals[1])
       /\ AtIns({"equ", "neq"}) => AoType_eq(ca', MirroredEqu)]_vars

\* Float(1.0) + Int(1) stepped: Float(2.0), as Int(1) + Float(1.0) gives
C19_Witness ==
    /\ called.op = "step" /\ steps = 1 /\ program = <<OpA("add", Imm(AoInt(1)))>>
    /\ status = Ok /\ ca = AoFloat(2 * 536870912)
    /\ apply("+", AoInt(1), AoFloat(F32_ONE), overflow_checks) = Return(ca)

\* what each of isb, isi, isf, isp, iss returns and leaves in ca, executed on
\* the VM as it is
IsOutcome(op) == execute(Op0(op), VM, overflow_checks, <<>>)
ExactlyOneIs ==
    /\ \A op \in IsOps :
          IsOutcome(op).st = Ok /\ IsOutcome(op).vm.ca \in {AoBool(TRUE), AoBool(FALSE)}
    /\ Cardinality({op \in IsOps : IsOutcome(op).vm.ca = AoBool(TRUE)}) = 1

\* C20: for every value in ca, exactly one of isb, isi, isf, isp, iss leaves
\* Bool(true) in ca and the other four leave Bool(false); none returns an
\* error, and a step of one of them leaves what it is found to leave.
C20_PredicateExclusive ==
    /\ ExactlyOneIs
    /\ [][/\ ExactlyOneIs'
          /\ AtIns(IsOps) => (status' = Ok /\ ca' = IsOutcome(program[pc + 1].op).vm.ca)]_vars

\* isp stepped on a Ptr: Bool(true)
C20_Witness ==
    /\ called.op = "step" /\ steps = 1 /\ program = <<Op0("isp")>>
    /\ status = Ok /\ ca = AoBool(TRUE)


(***************************************************************************)
(* SpecIns: one instruction of any kind (a mov to every destination        *)
(* included) stepped on a VM with values on its stacks.                    *)
(***************************************************************************)
MovPool ==
    {OpAA("mov", Reg(r), Imm(v)) :
        r \in {"PC", "DP", "MP", "DSB", "DST", "CA", "CB", "DS", "MEM"},
        v \in {AoPtr(2), AoInt(2)}}
        \cup {OpAA("mov", Imm(AoInt(0)), Imm(AoInt(1)))}
InsPool == DsPool \cup MovPool
InsStacks ==
    { <<>>, Vec_of(AoPtr(0), 1), Vec_push(Vec_of(AoPtr(0), 1), AoInt(5)),
      Vec_push(Vec_of(AoInt(5), 1), AoString(<<97>>)) }
InsCalls == {<<>>, Vec_of(0, 1), Vec_push(Vec_of(0, 1), 1)}
InsBases == {0, 1, 2}

InitIns ==
    \E ins \in InsPool, stack \in InsStacks, calls \in InsCalls, base \in InsBases,
       oc \in BOOLEAN :
        Start([AoVM_new EXCEPT !.ds = stack, !.cs = calls, !.dsb = base], <<ins>>, oc)
NextIns == Step \/ Reset
SpecIns == InitIns /\ [][NextIns]_vars

\* a call of step is taken that executes an instruction whose opcode is in ops
Executes(ops) == AtIns(ops) /\ called'.op = "step" /\ steps' = steps + 1
PcOps == {"jmp", "jmpa", "jt", "jta", "jf", "jfa", "call", "ret"}
AllOps == {ins.op : ins \in InsPool}

\* C21 as stated: a step that executes an instruction other than a jump, a
\* CALL or a RET (a MOV with any destination included) leaves pc at the index
\* of the instruction plus one.
C21_PcOnlyByJumps == [][Executes(AllOps \ PcOps) => pc' = pc + 1]_vars

\* C21 amended: the same for every instruction other than a jump, a CALL, a
\* RET or a MOV whose destination is pc.
C21_PcOnlyByJumpsAndMovPc ==
    [][(Executes(AllOps \ PcOps) /\ ~(program[pc + 1].op = "mov" /\ program[pc + 1].a = Reg("PC")))
            => pc' = pc + 1]_vars

\* a mov to dsb has been stepped: pc is behind it
C21_Witness ==
    /\ called.op = "step" /\ steps = 1 /\ program = <<OpAA("mov", Reg("DSB"), Imm(AoPtr(2)))>>
    /\ status = Ok /\ pc = 1 /\ dsb = 2


(***************************************************************************)
(* SpecRun: AoVM::run on a fresh VM, one turn of its loop per action.      *)
(***************************************************************************)
RunPool ==
    { Op0("nop"), OpA("push", Imm(AoInt(1))), OpU("pop", 0), Op0("ret"), OpU("int", 1),
      OpU("int", 0), OpA("add", Imm(AoString(<<97>>))), OpU("jmpa", 0) }
RunPrograms == UNION {[1..n -> RunPool] : n \in 1..MaxProgLen}

\* `match status { AoStatus::Ok => (), _ => return status }`: what run returns
\* after a step that yielded st, nothing while it loops (a panic of the step
\* ends run as well)
run_returns_on_exit(st) == IF st.kind \in {"Exit", "Panic"} THEN <<st>> ELSE <<>>
run_returns(st) == IF st = Ok THEN <<>> ELSE <<st>>

\* one turn of the loop of run, r being what its call of step yields
RunTurned(r) ==
    /\ SetVM(r.vm)
    /\ status' = r.st
    /\ called' = Called("run", run_returns(r.st))
    /\ steps' = steps + 1
    /\ int_log' = int_log \o r.calls
    /\ ds_access' = r.acc
    /\ UNCHANGED <<program, overflow_checks, frame, written, probe, asm, bin, des, stream>>
RunTurn ==
    /\ called.ret = <<>>
    /\ steps < MaxSteps
    /\ \E h \in HandlerReturns : RunTurned(AoVM_step(VM, program, overflow_checks, h))

InitRun == \E prog \in RunPrograms, oc \in BOOLEAN : Start(AoVM_new, prog, oc)
NextRun == RunTurn
SpecRun == InitRun /\ [][NextRun]_vars

\* C22: run returns the first status other than Ok that step produces; every
\* step before it returned Ok and no instruction is executed after it.
C22_RunReturnsFirstNonOk ==
    /\ called.ret = <<>>
    /\ [][/\ status \in {NotCalled, Ok}
          /\ called'.ret = (IF status' = Ok THEN <<>> ELSE <<status'>>)]_vars

\* run has returned DataStackUnderflow after a step that returned Ok, with an
\* instruction left
C22_Witness ==
    /\ called = Called("run", <<St("DataStackUnderflow")>>)
    /\ steps = 2 /\ pc = 2 /\ Len(program) = 3


\* C23: a step that executes INT 0 returns Exit, calls no handler and leaves
\* ds, dsb, ca and cs as they were, whatever the data stack holds.
C23_IntZeroExits ==
    [][(Executes({"int"}) /\ program[pc + 1].u = 0)
            => /\ status' = St("Exit") /\ int_log' = int_log
               /\ UNCHANGED <<ds, dsb, ca, cs>>]_vars

\* INT 0 stepped on a frame that an unwinding would have removed
C23_Witness ==
    /\ called.op = "step" /\ steps = 1 /\ program = <<OpU("int", 0)>>
    /\ status = St("Exit") /\ int_log = <<>>
    /\ ds = Vec_push(Vec_of(AoPtr(0), 1), AoInt(5)) /\ dsb = 1


\* ds[dsb - 1] exists and holds the Ptr pushed by `push dsb`
WellFormedFrame == dsb >= 1 /\ dsb <= Vec_len(ds) /\ Vec_index(ds, dsb - 1).tag = "Ptr"
\* the immediates of the N pushes behind the first instruction, N = |program| - 3
PushedArgs == [i \in 1..(Len(program) - 3) |-> program[i + 1].a.imm]

\* C24: a step that executes INT id, id # 0, on a well-formed frame calls the
\* handler once, with the values of ds[dsb..] in the order they were pushed;
\* after it ca is the value the handler returned, or what it was when the
\* handler returned nothing.
C24_IntCallsHandler ==
    [][(Executes({"int"}) /\ program[pc + 1].u # 0 /\ WellFormedFrame)
            => /\ status' = Ok
               /\ int_log' = Append(int_log, [id |-> program[pc + 1].u,
                                              args |-> Vec_from(ds, dsb)])
               /\ Vec_len(int_log'[1].args) = Len(PushedArgs)
               /\ \A i \in 1..Len(PushedArgs) :
                     Vec_index(int_log'[1].args, i - 1) = PushedArgs[i]
               /\ ca' = (IF Handler(program[pc + 1]) = <<>> THEN ca
                         ELSE Handler(program[pc + 1])[1])]_vars

\* interrupt 5 called with [Int(2), "Hello Aoi!"]
C24_Witness ==
    /\ called.op = "step" /\ steps = Len(program) /\ status = Ok /\ ca = AoInt(99)
    /\ program = HandlerProgram(Reg("DSB"), <<Imm(AoInt(2)), Imm(Hello)>>, 5)
    /\ int_log = <<[id |-> 5, args |-> Vec_push(Vec_of(AoInt(2), 1), Hello)]>>


(***************************************************************************)
(* SpecReset: a program is stepped some way on a fresh VM, the VM is       *)
(* reset, and the program is run again (as main does).  The handler is     *)
(* Handler.                                                                *)
(***************************************************************************)
ResetPool ==
    { OpA("push", Reg("DSB")), OpU("cnf", 0), OpU("int", 1), OpU("pop", 1),
      OpAA("mov", Reg("MEM"), Imm(AoInt(5))), OpAA("mov", Reg("CA"), Reg("MEM")),
      OpAA("mov", Reg("MP"), Imm(AoPtr(-1))), OpU("call", 1), Op0("ret"), OpU("jta", 0) }
ResetPrograms == UNION {[1..n -> ResetPool] : n \in 1..MaxProgLen}

\* what the handler returns to the instruction vm.pc points at
HandlerAt(vm, prog) ==
    IF vm.pc >= 0 /\ vm.pc < Len(prog) THEN Handler(prog[vm.pc + 1]) ELSE <<>>

\* AoVM::run as a function: the status returned and the handler calls made,
\* NotCalled when more than fuel steps are needed
RECURSIVE AoVM_run(_, _, _, _, _)
AoVM_run_next(prog, oc, fuel, calls, r) ==
    IF r.st = Ok THEN AoVM_run(r.vm, prog, oc, fuel - 1, calls \o r.calls)
    ELSE [st |-> r.st, calls |-> calls \o r.calls]
AoVM_run(vm, prog, oc, fuel, calls) ==
    IF fuel = 0 THEN [st |-> NotCalled, calls |-> calls]
    ELSE AoVM_run_next(prog, oc, fuel, calls, AoVM_step(vm, prog, oc, HandlerAt(vm, prog)))

InitReset == \E prog \in ResetPrograms, oc \in BOOLEAN : Start(AoVM_new, prog, oc)

\* vm.step(&program), before the reset
StepBeforeReset ==
    /\ called.op \in {"none", "step"} /\ status.kind # "Panic"
    /\ steps < MaxSteps
    /\ DoStep(HandlerAt(VM, program))

\* vm.reset(); the log of handler calls starts again
ResetAfterSteps ==
    /\ called.op \in {"none", "step"} /\ status.kind # "Panic"
    /\ SetVM(AoVM_reset(VM))
    /\ called' = Called("reset", <<>>)
    /\ steps' = steps + 1
    /\ int_log' = <<>> /\ ds_access' = <<>>
    /\ UNCHANGED <<program, overflow_checks, status, frame, written, probe,
                   asm, bin, des, stream>>

\* vm.run(&program) after the reset, one turn of its loop
RunAfterReset ==
    /\ called.op \in {"reset", "run"} /\ called.ret = <<>>
    /\ steps < 2 * MaxSteps + 1
    /\ RunTurned(AoVM_step(VM, program, overflow_checks, HandlerAt(VM, program)))

NextReset == StepBeforeReset \/ ResetAfterSteps \/ RunAfterReset
SpecReset == InitReset /\ [][NextReset]_vars

\* the run of the program on a VM that new() made
FreshRun == AoVM_run(AoVM_new, program, overflow_checks, 2 * MaxSteps + 2, <<>>)

LifoValues == {AoInt(1), AoString(<<97>>)}
LifoPrograms == [1..MaxProgLen -> {OpU("pop", 0), OpU("pop", 1)}]

InitLifo == \E prog \in LifoPrograms, oc \in BOOLEAN : Start(AoVM_new, prog, oc)

\* AoVM::push(value); called.ret: the argument and what push returned
PushValue ==
    /\ steps < MaxSteps
    /\ \E value \in LifoValues :
          /\ SetVM(AoVM_push(VM, value).vm)
          /\ called' = Called("push", <<value, AoVM_push(VM, value).ret>>)
    /\ steps' = steps + 1
    /\ ds_access' = <<>>
    /\ UNCHANGED <<program, overflow_checks, status, int_log, frame, written, probe,
                   asm, bin, des, stream>>

\* AoVM::peek()
ApiPeek ==
    /\ steps < MaxSteps
    /\ ApiCalled("peek", [vm |-> VM, ret |-> AoVM_peek(VM)])

NextLifo == PushValue \/ ApiPop \/ ApiPeek \/ Step
SpecLifo == InitLifo /\ [][NextLifo]_vars

\* the values of a stack, bottom first
RECURSIVE Values(_)
Values(vec) ==
    IF vec = <<>> THEN <<>>
    ELSE Values(SubSeq(vec, 1, Len(vec) - 1))
            \o [i \in 1..vec[Len(vec)].n |-> vec[Len(vec)].v]
Top(seq) == IF seq = <<>> THEN <<>> ELSE <<seq[Len(seq)]>>
Taken(op) == called'.op = op /\ steps' = steps + 1

\* C26: push appends its argument; pop returns and removes the value pushed
\* last among those still on the stack and returns none on an empty stack;
\* peek returns what the next pop would and changes nothing; the POP
\* instruction returns DataStackUnderflow on an empty stack and changes
\* nothing, and otherwise pops, setting ca to the popped value when to_ca
\* and leaving ca unchanged when not.
C26_StackIsLifo ==
    [][/\ Taken("push") =>
            (called'.ret[2] /\ Values(ds') = Append(Values(ds), called'.ret[1]))
       /\ Taken("pop") =>
            (called'.ret = <<Top(Values(ds))>> /\ Values(ds') = Front(Values(ds)))
       /\ Taken("peek") => (called'.ret = <<Top(Values(ds))>> /\ UNCHANGED vm_vars)
       /\ (Executes({"pop"}) /\ ds = <<>>) =>
            (status' = St("DataStackUnderflow") /\ UNCHANGED <<ds, ca, cb, dsb, dp, mp, cs, mem>>)
       /\ (Executes({"pop"}) /\ ds # <<>>) =>
            /\ status' = Ok /\ Values(ds') = Front(Values(ds))
            /\ ca' = (IF program[pc + 1].u = 1 THEN Top(Values(ds))[1] ELSE ca)]_vars

\* two values pushed, the second popped: the first is on top
C26_Witness ==
    /\ called = Called("pop", <<<<AoString(<<97>>)>>>>) /\ steps = 3
    /\ Values(ds) = <<AoInt(1)>> /\ AoVM_peek(VM) = <<AoInt(1)>>


(***************************************************************************)
(* SpecCall: AoVM::run of a main routine `push dsb; push a1 .. aN; cnf N;   *)
(* call A; int 0` and a callee at A that pushes and reads inside its own   *)
(* frame, may call a leaf routine at B by the same sequence, and ends with *)
(* ret.                                                                    *)
(***************************************************************************)
CallSeq(args, addr) ==
    <<OpA("push", Reg("DSB"))>> \o [i \in 1..Len(args) |-> OpA("push", args[i])]
        \o <<OpU("cnf", Len(args)), OpU("call", addr)>>
CallArgs == UNION {[1..n -> {Imm(AoInt(1)), Reg("CA")}] : n \in 0..MaxArgs}
InnerArgs == {<<>>, <<Imm(AoInt(3))>>}
CalleeBodies ==
    { <<>>, <<OpA("push", Imm(AoInt(7)))>>,
      <<OpA("push", Imm(AoInt(7))), OpU("pop", 1)>>,
      <<OpU("arg", 0), OpAA("mov", Reg("DS"), Imm(AoInt(9)))>>,
      <<OpU("arg", 0), OpA("push", Reg("DS"))>> }
LeafBodies == {<<>>, <<OpA("push", Imm(AoString(<<97>>)))>>}
\* the callee starts at Len(args) + 4; a nested callee's leaf follows its ret
CallProgram(args, body) ==
    CallSeq(args, Len(args) + 4) \o <<OpU("int", 0)>> \o body \o <<Op0("ret")>>
NestedProgram(args, body, inner, leaf) ==
    CallSeq(args, Len(args) + 4) \o <<OpU("int", 0)>> \o body
        \o CallSeq(inner, Len(args) + 4 + Len(body) + Len(inner) + 4)
        \o <<Op0("ret")>> \o leaf \o <<Op0("ret")>>
CallRoutines ==
    {CallProgram(args, body) : args \in CallArgs, body \in CalleeBodies}
        \cup {NestedProgram(args, body, inner, leaf) :
                 args \in CallArgs, body \in CalleeBodies,
                 inner \in InnerArgs, leaf \in LeafBodies}
CallStacks == {<<>>, Vec_push(Vec_of(AoPtr(0), 1), AoInt(5))}
CallBases == {0, 1}
CallReturns == {<<>>, Vec_of(9, 2)}

InitCall ==
    \E stack \in CallStacks, base \in CallBases, calls \in CallReturns,
       prog \in CallRoutines, oc \in BOOLEAN :
        Start([AoVM_new EXCEPT !.ds = stack, !.dsb = base, !.cs = calls], prog, oc)
NextCall == RunStep(MaxArgs + 13)
SpecCall == InitCall /\ [][NextCall]_vars

\* the indices of the CALLs of the program, and of the outer and inner one
CallSites == {c \in 0..(Len(program) - 1) : program[c + 1].op = "call"}
OuterCall == CHOOSE c \in CallSites : \A d \in CallSites : c <= d
InnerCall == CHOOSE c \in CallSites : \A d \in CallSites : d <= c
\* the index of the `push dsb` of the sequence whose CALL is at c
SeqStart(c) == c - program[c].u - 2
\* the RET that ends the routine called at c: the next RET after its entry
\* that is not the leaf's
RetOf(c) ==
    IF c = InnerCall THEN Len(program) - 1
    ELSE InnerCall + 1
\* values the callee has pushed, net, before its own call sequence
Locals ==
    Cardinality({i \in program[OuterCall + 1].u .. (SeqStart(InnerCall) - 1) :
                    program[i + 1].op = "push"})
        - Cardinality({i \in program[OuterCall + 1].u .. (SeqStart(InnerCall) - 1) :
                          program[i + 1].op = "pop"})
Nested == Cardinality(CallSites) = 2

\* C27: the RET that ends the routine called at c leaves pc = c + 1, |cs| as
\* before the CALL, and |ds| and dsb as before the `push dsb` of the
\* sequence; a leaf called from the callee returns into the callee, with the
\* callee's frame base and stack restored, before the callee returns.
C27_CallProtocol ==
    [][/\ (Executes({"ret"}) /\ pc = RetOf(OuterCall)) =>
             /\ status' = Ok /\ pc' = OuterCall + 1
             /\ Vec_len(cs') = frame.cs
             /\ Vec_len(ds') = frame.len /\ dsb' = frame.dsb
       /\ (Executes({"ret"}) /\ Nested /\ pc = RetOf(InnerCall)) =>
             /\ status' = Ok /\ pc' = InnerCall + 1
             /\ Vec_len(cs') = frame.cs + 1
             /\ Vec_len(ds') = frame.len + 1 + program[OuterCall].u + Locals
             /\ dsb' = frame.len + 1]_vars

\* a nested call with MaxArgs arguments has returned twice and run into the
\* INT 0 behind the outer CALL
C27_Witness ==
    /\ Nested /\ program[OuterCall].u = MaxArgs /\ Locals = 1
    /\ status = St("Exit") /\ pc = OuterCall + 2
    /\ Vec_len(cs) = 2 /\ frame.cs = 2 /\ Vec_len(ds) = 2 /\ frame.len = 2 /\ dsb = 1


(***************************************************************************)
(* RET and INT on a broken frame, under SpecIns                            *)
(***************************************************************************)
\* the frame-base slot ds[dsb - 1] exists and holds no Ptr
NonPtrSlot ==
    /\ dsb >= 1 /\ dsb <= Vec_len(ds)
    /\ Vec_index(ds, dsb - 1).tag # "Ptr"

\* C28: RET with an empty call stack returns CallStackUnderflow; RET with a
\* non-empty call stack and a frame-base slot that holds no Ptr returns
\* BadDataStack; both leave cs, ds and dsb unchanged.  INT id, id # 0, with a
\* frame-base slot that holds no Ptr returns BadDataStack and leaves ds and
\* dsb unchanged.
C28_RetIntErrors ==
    [][/\ (Executes({"ret"}) /\ Vec_len(cs) = 0) =>
            (status' = St("CallStackUnderflow") /\ UNCHANGED <<cs, ds, dsb>>)
       /\ (Executes({"ret"}) /\ Vec_len(cs) > 0 /\ NonPtrSlot) =>
            (status' = St("BadDataStack") /\ UNCHANGED <<cs, ds, dsb>>)
       /\ (Executes({"int"}) /\ program[pc + 1].u # 0 /\ NonPtrSlot) =>
            (status' = St("BadDataStack") /\ UNCHANGED <<ds, dsb>>)]_vars

\* RET refused on a String in the frame-base slot, two return addresses kept
C28_Witness ==
    /\ program = <<Op0("ret")>> /\ status = St("BadDataStack") /\ steps = 1
    /\ Vec_len(cs) = 2 /\ dsb = 2
    /\ ds = Vec_push(Vec_of(AoInt(5), 1), AoString(<<97>>))


(***************************************************************************)
(* EQU and NEQ, under SpecOper                                             *)
(***************************************************************************)
\* the immediate operand of the fetched instruction
Operand == program[pc + 1].a.imm

\* C29: EQU sets ca to Bool(true) exactly when ca and the source operand have
\* the same tag and equal payloads (the == of AoType; floats compare as f32),
\* whichever of the five tags it is, and to Bool(false) otherwise; NEQ sets
\* the negation, Bool(true) for every mixed-tag pair; both return Ok.
C29_EquNeqStructural ==
    [][/\ Executes({"equ"}) => (status' = Ok /\ ca' = AoBool(AoType_eq(ca, Operand)))
       /\ Executes({"neq"}) => (status' = Ok /\ ca' = AoBool(~AoType_eq(ca, Operand)))]_vars


(***************************************************************************)
(* SpecCmp: one of GT, LT, GE, LE stepped on a VM whose ca and immediate   *)
(* operand range over values of every tag.                                 *)
(***************************************************************************)
CmpOps == {"gt", "lt", "ge", "le"}
CmpPool == {OpA(op, Imm(v)) : op \in CmpOps, v \in OperValues}

InitCmp ==
    \E v \in OperValues, ins \in CmpPool, oc \in BOOLEAN :
        Start([AoVM_new EXCEPT !.ca = v], <<ins>>, oc)
NextCmp == Step
SpecCmp == InitCmp /\ [][NextCmp]_vars

\* the natural ordering within a tag: false < true, Int and Float by value,
\* Ptr as unsigned numbers, String by code units
NaturalLt(left, right) ==
    CASE left.tag = "Ptr" -> U32Lt(left.n, right.n)
      [] left.tag = "Float" -> F32Lt(left.n, right.n)
      [] left.tag = "String" -> StrLt(left.s, right.s)
      [] OTHER -> left.n < right.n
NaturalEq(left, right) ==
    IF left.tag = "Float" THEN F32Eq(left.n, right.n) ELSE left = right
Natural(op, left, right) ==
    CASE op = "gt" -> NaturalLt(right, left)
      [] op = "lt" -> NaturalLt(left, right)
      [] op = "ge" -> NaturalLt(right, left) \/ NaturalEq(left, right)
      [] op = "le" -> NaturalLt(left, right) \/ NaturalEq(left, right)

\* C30: GT, LT, GE and LE store in ca the Bool of the natural ordering of ca
\* and the source operand and return Ok for every same-tag pair; for every
\* pair of different tags they return InvalidOperation and leave ca unchanged.
C30_NaturalOrdering ==
    [][Executes(CmpOps) =>
          IF ca.tag = Operand.tag
          THEN status' = Ok /\ ca' = AoBool(Natural(program[pc + 1].op, ca, Operand))
          ELSE status'.kind = "InvalidOperation" /\ ca' = ca]_vars


(***************************************************************************)
(* Typed operator dispatch, under SpecOper                                 *)
(***************************************************************************)
\* the operator table: the tags an operator has a function for
TableTags(op) ==
    CASE op = "add" -> {"Bool", "Int", "Float", "Ptr", "String"}
      [] op = "sub" -> {"Int", "Float", "Ptr"}
      [] op = "mul" -> {"Bool", "Int", "Float", "Ptr"}
      [] op \in {"div", "rem"} -> {"Int", "Float"}
      [] OTHER -> {"Int"}
\* the tag of the function a pair of operands selects, "None" if none
SelectedTag(left, right) ==
    CASE left.tag = right.tag -> left.tag
      [] {left.tag, right.tag} = {"Float", "Int"} -> "Float"
      [] left.tag = "Ptr" /\ right.tag = "Int" -> "Ptr"
      [] left.tag = "Int" /\ right.tag = "Ptr" -> "Int"
      [] OTHER -> "None"

\* C31: for each of the ten binary operators and every pair of operands, the
\* instruction succeeds with ca tagged like the selected function (the common
\* tag, Float for Float/Int pairs, Ptr for (Ptr, Int), Int for (Int, Ptr))
\* when the table defines it, and returns
\* InvalidOperation("<left> <name> <right>") in every other case.
C31_TypedDispatch ==
    [][Executes(BinOperOps) =>
          IF SelectedTag(ca, Operand) \in TableTags(program[pc + 1].op)
          THEN status' = Ok /\ ca'.tag = SelectedTag(ca, Operand)
          ELSE status' = StMsg("InvalidOperation", <<BinOperName(program[pc + 1].op)>>,
                               <<ca, Operand>>)]_vars


(***************************************************************************)
(* SpecMov: one MOV stepped, its destination any operand, its source an    *)
(* immediate of any tag or a register.                                     *)
(***************************************************************************)
MovDsts ==
    {Reg(r) : r \in {"PC", "DP", "MP", "DSB", "DST", "CA", "CB", "DS", "MEM"}}
        \cup {Imm(AoInt(0))}
MovSrcs == {Imm(v) : v \in OperValues} \cup {Reg("CA"), Reg("DSB"), Reg("DS")}
MovInstrs == {OpAA("mov", dst, src) : dst \in MovDsts, src \in MovSrcs}
MovStacks == {<<>>, Vec_of(AoInt(5), 1)}

InitMov ==
    \E ins \in MovInstrs, acc \in HandlerAccs, stack \in MovStacks, oc \in BOOLEAN :
        Start([AoVM_new EXCEPT !.ca = acc, !.ds = stack], <<ins>>, oc)
NextMov == Step
SpecMov == InitMov /\ [][NextMov]_vars

\* the source operand of the fetched MOV can be read, and its value
SrcReadable == program[pc + 1].b.reg # "DS" \/ InBounds(dp, ds)
SrcValue ==
    CASE program[pc + 1].b.reg = "IMM" -> program[pc + 1].b.imm
      [] program[pc + 1].b.reg = "CA" -> ca
      [] program[pc + 1].b.reg = "DSB" -> AoPtr(dsb)
      [] program[pc + 1].b.reg = "DS" -> Vec_index(ds, dp)
Rejected(kind) ==
    /\ status'.kind = kind /\ pc' = pc + 1
    /\ UNCHANGED <<dp, mp, dsb, ca, cb, ds, cs, mem>>

\* C32: MOV to pc, dp, mp or dsb of a value that is not a Ptr returns
\* SetValueInvalidType; MOV to dst or to an immediate returns
\* SetValueInvalidTarget for every source value; both leave every register,
\* ds, cs and mem unchanged apart from the pre-incremented pc.  MOV to ca or
\* cb returns Ok and stores the value, whatever its tag.
C32_RejectedWrites ==
    [][(Executes({"mov"}) /\ SrcReadable) =>
          /\ (program[pc + 1].a.reg \in {"PC", "DP", "MP", "DSB"} /\ SrcValue.tag # "Ptr")
                => Rejected("SetValueInvalidType")
          /\ program[pc + 1].a.reg \in {"DST", "IMM"} => Rejected("SetValueInvalidTarget")
          /\ program[pc + 1].a.reg = "CA" => (status' = Ok /\ ca' = SrcValue)
          /\ program[pc + 1].a.reg = "CB" => (status' = Ok /\ cb' = SrcValue)]_vars

\* a String refused as the frame base
C32_Witness ==
    /\ program = <<OpAA("mov", Reg("DSB"), Imm(AoString(<<97>>)))>>
    /\ status.kind = "SetValueInvalidType" /\ status.vals = <<AoString(<<97>>)>>
    /\ pc = 1 /\ dsb = 0 /\ steps = 1


(***************************************************************************)
(* SpecJump: a program of three copies of one jump, entered at any of      *)
(* them with a ca of any tag.                                              *)
(***************************************************************************)
RelOps == {"jmp", "jt", "jf"}
AbsOps == {"jmpa", "jta", "jfa"}
Displacements == {-3, -1, 0, 1, 2, I32_MAX, I32_MIN}
Addresses == {0, 2, 5, -1}
JumpPool ==
    {OpU(op, d) : op \in RelOps, d \in Displacements}
        \cup {OpU(op, a) : op \in AbsOps, a \in Addresses}

InitJump ==
    \E ins \in JumpPool, cur \in 0..2, v \in OperValues, oc \in BOOLEAN :
        Start([AoVM_new EXCEPT !.pc = cur, !.ca = v], <<ins, ins, ins>>, oc)
NextJump == Step
SpecJump == InitJump /\ [][NextJump]_vars

\* Bool true, a nonzero Int, a Float other than +0.0 and -0.0
Nonzero(value) ==
    \/ value.tag = "Bool" /\ value = AoBool(TRUE)
    \/ value.tag = "Int" /\ value # AoInt(0)
    \/ value.tag = "Float" /\ value \notin {AoFloat(0), AoFloat(I32_MIN)}
JumpTaken(op) ==
    \/ op \in {"jmp", "jmpa"}
    \/ op \in {"jt", "jta"} /\ Nonzero(ca)
    \/ op \in {"jf", "jfa"} /\ ~Nonzero(ca)
\* cur + d as a 32-bit word, or the absolute address
JumpTarget(ins) == IF ins.op \in RelOps THEN WrapAdd(pc, ins.u) ELSE ins.u

\* C33: a taken JMP/JT/JF with displacement d at index cur leaves pc = cur + d
\* and a taken JMPA/JTA/JFA leaves pc = the address; a jump not taken leaves
\* pc = cur + 1; JT and JTA are taken exactly when ca is Bool true, a nonzero
\* Int or a nonzero Float, JF and JFA exactly when it is not.
C33_JumpsLand ==
    [][Executes(RelOps \cup AbsOps) =>
          /\ status' = Ok
          /\ pc' = (IF JumpTaken(program[pc + 1].op) THEN JumpTarget(program[pc + 1])
                    ELSE pc + 1)]_vars


(***************************************************************************)
(* SpecFetch: programs whose instruction at index i is a marker            *)
(* `mov ca,10+i`, `push pc` or an absolute jump, entered at any pc inside  *)
(* or past the program.                                                    *)
(***************************************************************************)
Marker(i) == OpAA("mov", Reg("CA"), Imm(AoInt(10 + i)))
FetchChoices(i) == {Marker(i), OpA("push", Reg("PC")), OpU("jmpa", 0), OpU("jmpa", 5)}
FetchPrograms ==
    {prog \in [1..MaxProgLen -> UNION {FetchChoices(i) : i \in 0..(MaxProgLen - 1)}] :
        \A i \in 1..MaxProgLen : prog[i] \in FetchChoices(i - 1)}
FetchEntries == {0, 1, 2, MaxProgLen, 7, -1}

InitFetch ==
    \E prog \in FetchPrograms, cur \in FetchEntries, oc \in BOOLEAN :
        Start([AoVM_new EXCEPT !.pc = cur], prog, oc)
NextFetch == Step
SpecFetch == InitFetch /\ [][NextFetch]_vars

\* C34: a step with pc >= |program| returns Exit and leaves pc, dp, mp, dsb,
\* ca, cb, ds, cs and mem unchanged; a step with pc < |program| executes the
\* instruction at the old pc, and no other, with pc already incremented: the
\* marker of that index lands in ca, `push pc` pushes old pc + 1, and a jump
\* there sets pc.
C34_StepFetches ==
    [][Taken("step") =>
          IF pc >= 0 /\ pc < Len(program)
          THEN /\ status' = Ok
               /\ UNCHANGED <<dp, mp, dsb, cb, cs, mem>>
               /\ CASE program[pc + 1].op = "mov" ->
                          ca' = AoInt(10 + pc) /\ pc' = pc + 1 /\ ds' = ds
                    [] program[pc + 1].op = "push" ->
                          ds' = Vec_push(ds, AoPtr(pc + 1)) /\ pc' = pc + 1 /\ ca' = ca
                    [] program[pc + 1].op = "jmpa" ->
                          pc' = program[pc + 1].u /\ ca' = ca /\ ds' = ds
          ELSE status' = St("Exit") /\ UNCHANGED vm_vars]_vars

\* entered at 0, run from `push pc` through the last marker, then stepped
\* once more past the end
C34_Witness ==
    /\ program[1].op = "push" /\ status = St("Exit") /\ steps = MaxSteps
    /\ pc = MaxProgLen /\ ca = AoInt(10 + MaxProgLen - 1) /\ ds = Vec_of(AoPtr(1), 1)


(***************************************************************************)
(* SpecCast: `mov cb,ca` and two casts stepped on a ca of any tag.         *)
(***************************************************************************)
CastOps == {"csi", "csf", "csp", "css"}
CastValues ==
    OperValues \cup
    {AoFloat(1075838976), AoFloat(F32Neg(F32_ONE)), AoFloat(F32_INF), AoFloat(I32_MIN),
     AoInt(I32_MIN), AoPtr(I32_MIN),
     AoString(<<49, 50>>), AoString(<<45, 51>>), AoString(U32ToString(-1))}
\* css after csf is left out: F32ToString covers the floats of CastValues,
\* not the images of large Int and Ptr values
CastPairs == {pair \in CastOps \X CastOps : pair # <<"csf", "css">>}
CastPrograms ==
    {<<OpAA("mov", Reg("CB"), Reg("CA")), Op0(pair[1]), Op0(pair[2])>> : pair \in CastPairs}

InitCast ==
    \E v \in CastValues, prog \in CastPrograms, oc \in BOOLEAN :
        Start([AoVM_new EXCEPT !.ca = v], prog, oc)
NextCast == Step
SpecCast == InitCast /\ [][NextCast]_vars

CastTag(op) ==
    CASE op = "csi" -> "Int" [] op = "csf" -> "Float" [] op = "csp" -> "Ptr"
      [] op = "css" -> "String"
\* one and zero of a numeric tag
Unit(tag, b) ==
    CASE tag = "Int" -> AoInt(IF b THEN 1 ELSE 0)
      [] tag = "Float" -> AoFloat(IF b THEN F32_ONE ELSE 0)
      [] tag = "Ptr" -> AoPtr(IF b THEN 1 ELSE 0)
Ran(first, second) ==
    /\ steps = 3 /\ status = Ok
    /\ program[2].op = first /\ program[3].op = second

\* C36: CSI, CSF, CSP and CSS return Ok for a ca of every tag and leave ca
\* tagged Int, Float, Ptr and String; a cast to the tag ca has leaves ca
\* unchanged; Bool casts to 1 or 0 of the numeric tag; Int to Ptr and Ptr to
\* Int keep the 32 bits, so that CSP then CSI gives back every Int and CSI
\* then CSP every Ptr.
C36_CastsTotal ==
    /\ (Ran("csp", "csi") /\ cb.tag = "Int") => ca = cb
    /\ (Ran("csi", "csp") /\ cb.tag = "Ptr") => ca = cb
    /\ [][Executes(CastOps) =>
            /\ status' = Ok /\ ca'.tag = CastTag(program[pc + 1].op)
            /\ UNCHANGED <<cb, dp, mp, dsb, ds, cs, mem>>
            /\ ca.tag = CastTag(program[pc + 1].op) => ca' = ca
            /\ (ca.tag = "Bool" /\ program[pc + 1].op # "css")
                  => ca' = Unit(CastTag(program[pc + 1].op), ca = AoBool(TRUE))
            /\ ({ca.tag, ca'.tag} = {"Int", "Ptr"}) => ca'.n = ca.n]_vars

\* Int(-1) cast to Ptr(4294967295) and back
C36_Witness ==
    /\ Ran("csp", "csi") /\ cb = AoInt(-1) /\ ca = AoInt(-1)


(***************************************************************************)
(* SpecSort: the program of tests/bubble_sort.rs on AoVM::default(), run   *)
(* by AoVM::run as the test does, or single-stepped by an embedder that    *)
(* goes on after a failing step.  ao_asm builds `mov mp,0` with            *)
(* AoArg::from(0), an Int immediate, and jmp and jf as the relative Jmp    *)
(* and Jf.  default_interrupt returns None.                                *)
(***************************************************************************)
BubbleProgram ==
    <<OpAA("mov", Reg("MP"), Imm(AoInt(0))), OpAA("mov", Reg("MEM"), Imm(AoInt(3))),
      OpAA("mov", Reg("MP"), Imm(AoInt(1))), OpAA("mov", Reg("MEM"), Imm(AoInt(19))),
      OpAA("mov", Reg("MP"), Imm(AoInt(2))), OpAA("mov", Reg("MEM"), Imm(AoInt(5))),
      OpAA("mov", Reg("MP"), Imm(AoInt(3))), OpAA("mov", Reg("MEM"), Imm(AoInt(15))),
      OpAA("mov", Reg("MP"), Imm(AoInt(4))), OpAA("mov", Reg("MEM"), Imm(AoInt(1))),
      OpAA("mov", Reg("MP"), Imm(AoInt(5))), OpAA("mov", Reg("MEM"), Imm(AoInt(4))),
      OpAA("mov", Reg("MP"), Imm(AoInt(6))), OpAA("mov", Reg("MEM"), Imm(AoInt(16))),
      OpAA("mov", Reg("MP"), Imm(AoInt(7))), OpAA("mov", Reg("MEM"), Imm(AoInt(8))),
      OpA("push", Imm(AoInt(8))), OpA("push", Imm(AoInt(0))), OpU("arg", 1),
      OpAA("mov", Reg("CA"), Reg("DS")), OpA("add", Imm(AoInt(1))), OpU("arg", 0),
      OpA("lt", Reg("DS")), OpU("jf", 80), OpA("push", Imm(AoInt(0))), OpU("arg", 2),
      OpAA("mov", Reg("CA"), Reg("DS")), OpA("add", Imm(AoInt(1))), OpU("arg", 1),
      OpA("add", Reg("DS")), OpU("arg", 0), OpA("lt", Reg("DS")), OpU("jf", 74),
      OpU("arg", 2), OpAA("mov", Reg("CA"), Reg("DS")), Op0("csp"),
      OpAA("mov", Reg("MP"), Reg("CA")), OpA("push", Reg("MEM")),
      OpA("add", Imm(AoInt(1))), OpAA("mov", Reg("MP"), Reg("CA")),
      OpA("push", Reg("MEM")), OpAA("mov", Reg("CA"), Reg("DST")),
      OpA("sub", Imm(AoInt(2))), OpAA("mov", Reg("DP"), Reg("CA")), OpU("pop", 1),
      OpA("lt", Reg("DS")), OpU("pop", 0), OpU("jf", 69), OpU("arg", 2),
      OpAA("mov", Reg("CA"), Reg("DS")), OpA("add", Imm(AoInt(1))), Op0("csp"),
      OpAA("mov", Reg("MP"), Reg("CA")), OpA("push", Reg("MEM")), OpU("arg", 2),
      OpAA("mov", Reg("CA"), Reg("DS")), Op0("csp"), OpAA("mov", Reg("MP"), Reg("CA")),
      OpA("push", Reg("MEM")), OpA("add", Imm(AoInt(1))),
      OpAA("mov", Reg("MP"), Reg("CA")), OpU("pop", 1), OpAA("mov", Reg("MEM"), Reg("CA")),
      OpU("arg", 2), OpAA("mov", Reg("CA"), Reg("DS")), Op0("csp"),
      OpAA("mov", Reg("MP"), Reg("CA")), OpU("pop", 1), OpAA("mov", Reg("MEM"), Reg("CA")),
      OpU("arg", 2), OpAA("mov", Reg("CA"), Reg("DS")), OpA("add", Imm(AoInt(1))),
      OpAA("mov", Reg("DS"), Reg("CA")), OpU("jmp", 25), OpU("pop", 0), OpU("arg", 1),
      OpAA("mov", Reg("CA"), Reg("DS")), OpA("add", Imm(AoInt(1))),
      OpAA("mov", Reg("DS"), Reg("CA")), OpU("jmp", 18), OpU("pop", 0),
      OpA("push", Imm(AoInt(0))), OpU("arg", 1), OpAA("mov", Reg("CA"), Reg("DS")),
      OpU("arg", 0), OpA("lt", Reg("DS")), OpU("jf", 103), OpA("push", Reg("DSB")),
      OpU("arg", 1), OpAA("mov", Reg("CA"), Reg("DS")), Op0("csp"),
      OpAA("mov", Reg("MP"), Reg("CA")), OpAA("mov", Reg("CA"), Reg("MEM")), Op0("css"),
      OpA("add", Imm(AoString(<<44, 32>>))), OpA("push", Reg("CA")), OpU("cnf", 1),
      OpU("int", 1), OpU("arg", 1), OpAA("mov", Reg("CA"), Reg("DS")),
      OpA("add", Imm(AoInt(1))), OpAA("mov", Reg("DS"), Reg("CA")), OpU("jmp", 82),
      OpU("pop", 0)>>
MaxSortSteps == 150

InitSort == \E oc \in BOOLEAN : Start(AoVM_new, BubbleProgram, oc)
RunSort ==
    /\ called.op \in {"none", "run"} /\ called.ret = <<>>
    /\ steps < MaxSortSteps
    /\ RunTurned(AoVM_step(VM, program, overflow_checks, <<>>))
StepSort ==
    /\ called.op \in {"none", "step"} /\ status.kind # "Panic"
    /\ steps < MaxSortSteps
    /\ DoStep(<<>>)
NextSort == RunSort \/ StepSort
SpecSort == InitSort /\ [][NextSort]_vars

Sorted == <<1, 3, 4, 5, 8, 15, 16, 19>>
\* "<n>, " printed through interrupt 1
Printed(n) == [id |-> 1, args |-> Vec_of(AoString(I32ToString(n) \o <<44, 32>>), 1)]

\* C35: when run returns on the bubble_sort program it returns Exit, memory
\* cells 0..7 hold 1, 3, 4, 5, 8, 15, 16, 19, and each has been printed once
\* through interrupt 1, in that order.
C35_BubbleSorts ==
    (called.op = "run" /\ called.ret # <<>>) =>
        /\ called.ret = <<St("Exit")>>
        /\ \A k \in 0..7 : Memory_get(mem, k) = AoInt(Sorted[k + 1])
        /\ int_log = [k \in 1..8 |-> Printed(Sorted[k])]


(***************************************************************************)
(* SpecNeq: EQU and NEQ run on the same pair: `mov cb,ca; equ x; push ca;  *)
(* mov ca,cb; neq x` for every ca and immediate x.                         *)
(***************************************************************************)
NeqProgram(x) ==
    <<OpAA("mov", Reg("CB"), Reg("CA")), OpA("equ", Imm(x)), OpA("push", Reg("CA")),
      OpAA("mov", Reg("CA"), Reg("CB")), OpA("neq", Imm(x))>>

InitNeq ==
    \E v \in OperValues, x \in OperValues, oc \in BOOLEAN :
        Start([AoVM_new EXCEPT !.ca = v], NeqProgram(x), oc)
NextNeq == RunStep(Len(program))
SpecNeq == InitNeq /\ [][NextNeq]_vars

\* C37: for every pair (ca, src) the Bool NEQ leaves in ca is the negation of
\* the Bool EQU leaves in ca: after the program the pushed EQU result and ca
\* are Bool(true) and Bool(false), one each.
C37_NeqNegatesEqu ==
    steps = Len(program) =>
        /\ status = Ok /\ Vec_len(ds) = 1
        /\ {Vec_last(ds), ca} = {AoBool(TRUE), AoBool(FALSE)}

\* two equal Ptrs: EQU left Bool(false), NEQ Bool(true)
C37_Witness ==
    /\ steps = Len(program) /\ cb = AoPtr(1) /\ program[2].a.imm = AoPtr(1)
    /\ Vec_last(ds) = AoBool(FALSE) /\ ca = AoBool(TRUE)


\* ---------------------------------------------------------------------------
\* Operators that fail.  One operator instruction is stepped on a machine
\* whose registers, stacks and memory all hold something, so that a write by
\* a failing operator would show.
FailOps == BinOperOps \cup CmpOps \cup {"and", "or", "xor"}
FailUnary == {"inc", "dec", "not", "bnot"}
FailSrcs == {Imm(v) : v \in OperValues} \cup {Reg("CB"), Reg("DS"), Reg("MEM")}
FailPool ==
    {OpA(op, src) : op \in FailOps, src \in FailSrcs} \cup {Op0(op) : op \in FailUnary}
FailVM(acc) ==
    [AoVM_new EXCEPT !.ca = acc, !.cb = AoString(<<97>>), !.dp = 1, !.mp = 2, !.dsb = 1,
                     !.ds = Vec_push(Vec_of(AoInt(5), 1), AoBool(TRUE)),
                     !.cs = Vec_of(AoPtr(0), 1),
                     !.mem = Memory_set(Memory_new, 2, AoInt(9))]
InitFail ==
    \E ins \in FailPool, acc \in OperValues, oc \in BOOLEAN :
        Start(FailVM(acc), <<ins>>, oc)
NextFail == Step
SpecFail == InitFail /\ [][NextFail]_vars

\* C38: whenever an arithmetic, shift, bitwise, logical, comparison, INC/DEC,
\* NOT or BNOT instruction returns InvalidOperation, ca, cb, dp, mp, dsb, ds,
\* cs and mem are exactly as before the step; only pc has been incremented.
C38_FailedOperatorKeeps ==
    [][(Executes(FailOps \cup FailUnary) /\ status'.kind = "InvalidOperation")
         => (pc' = pc + 1 /\ UNCHANGED <<ca, cb, dp, mp, dsb, ds, cs, mem>>)]_vars
\* AND with ca = Int(1) and a Bool operand read from the top of ds has
\* returned InvalidOperation.
C38_Witness ==
    /\ steps = 1 /\ status.kind = "InvalidOperation"
    /\ program = <<OpA("and", Reg("DS"))>> /\ ca = AoInt(1)


\* ---------------------------------------------------------------------------
\* Calls after Exit.  The embedder calls step and run on one VM and one
\* program, in any order, and keeps calling after a call has returned Exit.
MaxExitSteps == 6
ExitPool == {Op0("nop"), OpU("int", 0), OpU("int", 1), OpA("push", Imm(AoInt(1)))}
ExitPrograms == UNION {[1..n -> ExitPool] : n \in 1..MaxProgLen}
InitExit == \E prog \in ExitPrograms, oc \in BOOLEAN : Start(AoVM_new, prog, oc)
\* a call of step, when no call of run is in its loop
StepExit ==
    /\ called.op # "run" \/ called.ret # <<>>
    /\ status.kind # "Panic"
    /\ steps < MaxExitSteps
    /\ \E h \in HandlerReturns : DoStep(h)
\* one turn of the loop of run: of the call in progress, or of a new call
RunExit ==
    /\ status.kind # "Panic"
    /\ steps < MaxExitSteps
    /\ \E h \in HandlerReturns : RunTurned(AoVM_step(VM, program, overflow_checks, h))
NextExit == StepExit \/ RunExit
SpecExit == InitExit /\ [][NextExit]_vars

\* C39: once step or run has returned Exit, every later step or run on the
\* same VM and program returns Exit again and executes no instruction (the
\* machine is left as it was), whether the Exit came from pc running past the
\* end or from INT 0.
C39_ExitIsFinal ==
    [][(status.kind = "Exit" /\ steps' = steps + 1)
         => (status'.kind = "Exit" /\ UNCHANGED <<pc, ca, cb, dp, mp, dsb, ds, cs, mem>>)]_vars


\* ---------------------------------------------------------------------------
\* Pointer arithmetic.  ADD or SUB is stepped with a Ptr in ca and an Int
\* immediate, positive and negative, at and around the ends of both ranges.
PtrBases == {AoPtr(0), AoPtr(1), AoPtr(5), AoPtr(I32_MAX), AoPtr(I32_MIN), AoPtr(-1)}
PtrOffsets ==
    {AoInt(-2), AoInt(-1), AoInt(0), AoInt(1), AoInt(2), AoInt(I32_MAX), AoInt(I32_MIN)}
PtrPool == {OpA(op, Imm(i)) : op \in {"add", "sub"}, i \in PtrOffsets}
InitPtr ==
    \E ins \in PtrPool, base \in PtrBases, oc \in BOOLEAN :
        Start([AoVM_new EXCEPT !.ca = base], <<ins>>, oc)
NextPtr == Step
SpecPtr == InitPtr /\ [][NextPtr]_vars

\* C40: ADD with ca = Ptr(p) and source Int(i) returns Ok and leaves
\* ca = Ptr(p + i), SUB leaves Ptr(p - i), i being negative or not; the result
\* is the 32-bit wrap-around of the exact value and the step never aborts.
C40_PtrSignedOffset ==
    [][(Executes({"add", "sub"}) /\ ca.tag = "Ptr" /\ Operand.tag = "Int")
         => /\ status' = Ok
            /\ ca' = AoPtr(IF program[pc + 1].op = "add" THEN WrapAdd(ca.n, Operand.n)
                           ELSE WrapSub(ca.n, Operand.n))]_vars

=============================================================================
